---- MODULE Spec2Model ----
(***************************************************************************)
(* State-machine model of the portfolio site's client-side components:     *)
(* ThemeManager, NavigationManager, LazyImageLoader, AnimationEngine,      *)
(* PortfolioApp, ContactForm, BlogSystem and the service worker, each with *)
(* the part of the browser environment it reads and writes (localStorage,  *)
(* the document, timers, observers, Image preloads, the network, caches).  *)
(***************************************************************************)
EXTENDS Integers, Sequences, FiniteSets, TLC

(***************************************************************************)
(* Bounds of the model.                                                    *)
(***************************************************************************)
MaxThemeOps == 4
MaxLoading == 2
MaxObserveCalls == 2
MaxAnimateCalls == 2
MaxAnimOps == 4
MaxAppOps == 2
MaxFormOps == 2
MaxHideTimers == 2
MaxBlogOps == 3
MaxFetches == 3

(***************************************************************************)
(* ThemeManager                                                            *)
(***************************************************************************)
VARIABLES
  currentTheme,        \* this.currentTheme
  transitionTimeout,   \* this.transitionTimeout: 0 is null, else a timer id
  dataTheme,           \* document.documentElement's data-theme attribute
  bodyTransitioning,   \* document.body carries 'theme-transitioning'
  toggleLabel,         \* title / aria-label of .theme-toggle
  storage,             \* localStorage['portfolio-theme']
  themeEvents,         \* themeChanged events dispatched on window, in order
  timers,              \* ids of the pending setTimeout callbacks
  timerSeq,            \* last id handed out by setTimeout
  storageOK,           \* FALSE: every localStorage access throws
  hasToggle,           \* a .theme-toggle button is in the document
  hasMatchMedia,       \* window.matchMedia exists
  osLight,             \* matchMedia('(prefers-color-scheme: light)').matches
  themeOps,            \* number of operations so far (logical clock)
  bootStorage,         \* what construction found in the store
  bootOsLight,         \* the OS preference at construction
  userChose,           \* setTheme/toggleTheme called since construction
  themeLast,           \* the last operation and the state it started from
  themeLast2           \* the operation before it

themeVars == <<currentTheme, transitionTimeout, dataTheme, bodyTransitioning,
               toggleLabel, storage, themeEvents, timers, timerSeq, storageOK,
               hasToggle, hasMatchMedia, osLight, themeOps, bootStorage,
               bootOsLight, userChose, themeLast, themeLast2>>

\* NavigationManager and the parts of the document and window it acts on.
VARIABLES
  mobileMenuOpen,      \* this.mobileMenuOpen
  navLinksOpen,        \* .nav-links carries 'mobile-menu-open'
  hamburgerActive,     \* the hamburger button carries 'active'
  ariaExpanded,        \* the hamburger button's aria-expanded attribute
  bodyOverflow,        \* document.body.style.overflow
  activeSection,       \* this.activeSection
  activeLinks,         \* ids of the collected sections whose link carries 'active'
  sectionsObserved,    \* the section observer has been given the sections
  innerWidth,          \* window.innerWidth
  scrollTop,           \* top of the last window.scrollTo request, -1 for none
  scrollErrors,        \* a link click threw in smoothScrollToSection
  hasHeader,           \* the nav sits inside a <header>
  navLast              \* the last operation and the state it started from

navVars == <<mobileMenuOpen, navLinksOpen, hamburgerActive, ariaExpanded,
             bodyOverflow, activeSection, activeLinks, sectionsObserved,
             innerWidth, scrollTop, scrollErrors, hasHeader, navLast>>

\* LazyImageLoader, the image elements, the IntersectionObserver and the
\* off-DOM preloads.
VARIABLES
  images,              \* this.images: the tracked set
  observed,            \* the targets of this.observer
  dom,                 \* per image element: its attributes and classes
  loading,             \* the off-DOM Image preloads in flight
  observeCalls,        \* per image: calls of observer.observe(img) so far
  placeholderCalls,    \* per image: times observeImage applied the placeholder
  everLeft,            \* per image: it has left the tracked set at least once
  unhandledRejection,  \* a loadImage promise was rejected with no handler
  hasIO,               \* 'IntersectionObserver' in window
  lazyLast             \* the last operation and the state it started from

lazyVars == <<images, observed, dom, loading, observeCalls, placeholderCalls,
              everLeft, unhandledRejection, hasIO, lazyLast>>

VARIABLES
  isInitialized,       \* AnimationEngine.isInitialized
  scrollObserver,      \* this.scrollObserver: live (non-null) and its targets
  animatedElements,    \* this.animatedElements
  parallaxElements,    \* length of this.parallaxElements
  scrollListener,      \* window carries the engine's scroll listener
  parallaxBg,          \* .hero holds a .parallax-bg element
  parallaxY,           \* translateY of .parallax-bg, in px
  pageYOffset,         \* window.pageYOffset
  style,               \* element.style of every element
  visible,             \* the elements carrying class 'visible'
  hoverInitialized,    \* the elements with dataset.hoverInitialized
  clickInitialized,    \* the elements with dataset.clickInitialized
  listeners,           \* pointer listeners of every element, as registered
  animateCalls,        \* history: animateElement calls per element
  attachCalls,         \* history: addHoverEffects/addClickFeedback calls per element
  fired,               \* history: listeners run by the last pointer event
  animOps,             \* history: operations performed so far
  animLast             \* history: last operation, its argument, state before

animVars == <<isInitialized, scrollObserver, animatedElements, parallaxElements,
              scrollListener, parallaxBg, parallaxY, pageYOffset, style, visible,
              hoverInitialized, clickInitialized, listeners, animateCalls,
              attachCalls, fired, animOps, animLast>>

VARIABLES
  appPc,               \* where PortfolioApp.init() stands
  readyState,          \* document.readyState
  structure,           \* the containers the document has
  themeHooks,          \* component names whose instances expose onThemeChange
  navHooks,            \* component names whose instances expose onNavigationChange
  data,                \* this.data: projects, articles, timeline
  fetched,             \* history: how each dataset's fetch ended
  fields,              \* this.themeManager, this.projectGallery, ...
  registry,            \* keys of this.components, in insertion order
  nextGen,             \* instances constructed so far
  destroyedGens,       \* instances whose destroy() ran
  themeSubs,           \* themeChanged listeners the app put on window
  navSubs,             \* navigationChanged listeners the app put on window
  domPending,          \* a DOMContentLoaded listener waits to initialize
  appTimers,           \* pending setTimeout callbacks, by purpose
  hookLog,             \* history: hook calls made by the last step
  dynamicTheme,        \* data-theme of the [data-dynamic-theme] elements
  uncaught,            \* an exception escaped a listener
  initFailed,          \* init()'s catch block ran
  preload,             \* document.body carries 'preload'
  appOps,              \* history: events and calls after init started
  appLast              \* history: last operation, its argument, state before

appVars == <<appPc, readyState, structure, themeHooks, navHooks, data, fetched,
             fields, registry, nextGen, destroyedGens, themeSubs, navSubs,
             domPending, appTimers, hookLog, dynamicTheme, uncaught, initFailed,
             preload, appOps, appLast>>

VARIABLES
  values,              \* field.value of name, email, subject, message
  borderColor,         \* field.style.borderColor
  errorElements,       \* the #<field>-error elements: text, display, opacity
  hideTimers,          \* pending setTimeout callbacks of hideError, per element
  submitPending,       \* simulated submissions whose 1 s delay is running
  successElement,      \* the #form-success element: text, display, opacity
  successTimers,       \* pending 5 s timers of showSuccess
  successFadeTimers,   \* pending 300 ms timers started by a 5 s timer
  lastValid,           \* history: verdict of the last validation of each field
  formResult,          \* history: what the last validation returned
  formOps,             \* history: validations and inputs so far
  formLast             \* history: last operation, its argument, state before

formVars == <<values, borderColor, errorElements, hideTimers, submitPending,
              successElement, successTimers, successFadeTimers, lastValid,
              formResult, formOps, formLast>>

VARIABLES
  articles,            \* BlogSystem.articles, the array handed to the constructor
  currentFilter,       \* this.currentFilter
  searchQuery,         \* this.searchQuery
  blogView,            \* what the blog container shows
  givenArticles,       \* history: the array as it was handed to the constructor
  blogOps,             \* history: operations so far
  blogLast             \* history: last operation, its argument, state before

blogVars == <<articles, currentFilter, searchQuery, blogView, givenArticles,
              blogOps, blogLast>>

VARIABLES
  swPhase,             \* life cycle of the service worker
  cacheStorage,        \* caches: cache name -> URLs it holds a response for
  pendingPuts,         \* requests whose cache.put has not settled yet
  storable,            \* history: requests answered by a 200/basic network response
  rejections,          \* promise rejections nobody handles
  swOps,               \* history: fetch events so far
  swLast               \* history: last event, its request and outcome, caches before

swVars == <<swPhase, cacheStorage, pendingPuts, storable, rejections, swOps, swLast>>

\* The modals of ProjectGallery and SkillsTimeline, which share
\* document.body.style.overflow with the mobile menu.
VARIABLES
  galleryModal,        \* ProjectGallery.modal is set and in the document
  timelineModal        \* SkillsTimeline.modal is set and in the document

modalVars == <<galleryModal, timelineModal>>

supportedThemes == {"dark", "light"}

NoValue == "null"

\* What the store may hold when the page loads.
StoredValues == {NoValue, "", "dark", "light", "blue"}

\* Arguments handed to setTheme.
ThemeNames == {"dark", "light", "blue", ""}

NoLabel == "Toggle theme"

\* JavaScript's !v for the values a store read yields.
Falsy(v) == v = NoValue \/ v = ""

OtherTheme(t) == IF t = "dark" THEN "light" ELSE "dark"

\* The ThemeManager fields and the environment they are applied to, as one value.
ThemeWorld ==
  [currentTheme |-> currentTheme, transitionTimeout |-> transitionTimeout,
   dataTheme |-> dataTheme, bodyTransitioning |-> bodyTransitioning,
   toggleLabel |-> toggleLabel, storage |-> storage, themeEvents |-> themeEvents,
   timers |-> timers, timerSeq |-> timerSeq]

ThemeWorldIs(w) ==
  /\ currentTheme = w.currentTheme
  /\ transitionTimeout = w.transitionTimeout
  /\ dataTheme = w.dataTheme
  /\ bodyTransitioning = w.bodyTransitioning
  /\ toggleLabel = w.toggleLabel
  /\ storage = w.storage
  /\ themeEvents = w.themeEvents
  /\ timers = w.timers
  /\ timerSeq = w.timerSeq

ThemeWorldBecomes(w) ==
  /\ currentTheme' = w.currentTheme
  /\ transitionTimeout' = w.transitionTimeout
  /\ dataTheme' = w.dataTheme
  /\ bodyTransitioning' = w.bodyTransitioning
  /\ toggleLabel' = w.toggleLabel
  /\ storage' = w.storage
  /\ themeEvents' = w.themeEvents
  /\ timers' = w.timers
  /\ timerSeq' = w.timerSeq

getSavedTheme(w, ok) == IF ok THEN w.storage ELSE NoValue

persistTheme(w, themeName, ok) ==
  IF ok THEN [w EXCEPT !.storage = themeName] ELSE w

detectSystemTheme(mm, light) == IF mm /\ light THEN "light" ELSE "dark"

applyThemeImmediate(w, themeName) == [w EXCEPT !.dataTheme = themeName]

\* applyThemeWithTransition leaving the pending timer to run.
applyThemeWithTransition_NoClear(w, themeName) ==
  LET id == w.timerSeq + 1
  IN [w EXCEPT !.timers = w.timers \cup {id},
               !.timerSeq = id,
               !.transitionTimeout = id,
               !.bodyTransitioning = TRUE,
               !.dataTheme = themeName]

applyThemeWithTransition(w, themeName) ==
  LET id == w.timerSeq + 1
      cleared == IF w.transitionTimeout # 0
                 THEN w.timers \ {w.transitionTimeout} ELSE w.timers
  IN [w EXCEPT !.timers = cleared \cup {id},
               !.timerSeq = id,
               !.transitionTimeout = id,
               !.bodyTransitioning = TRUE,
               !.dataTheme = themeName]

updateToggleButton(w) ==
  [w EXCEPT !.toggleLabel = IF w.currentTheme = "dark"
                            THEN "Switch to light mode"
                            ELSE "Switch to dark mode"]

\* The event carries its detail; seenTheme/seenData/seenStorage record what a
\* listener reads from the manager, the document and the store while it runs.
dispatchThemeChangeEvent(w, newTheme, previousTheme, now) ==
  [w EXCEPT !.themeEvents =
     Append(@, [theme |-> newTheme, previousTheme |-> previousTheme,
                timestamp |-> now, seenTheme |-> w.currentTheme,
                seenData |-> w.dataTheme, seenStorage |-> w.storage])]

\* setTheme without the supportedThemes check.
setTheme_NoValidation(w, themeName, tog, ok, now) ==
  LET previousTheme == w.currentTheme
      w1 == [w EXCEPT !.currentTheme = themeName]
      w2 == applyThemeWithTransition(w1, themeName)
      w3 == IF tog THEN updateToggleButton(w2) ELSE w2
      w4 == persistTheme(w3, themeName, ok)
  IN dispatchThemeChangeEvent(w4, themeName, previousTheme, now)

\* setTheme dispatching themeChanged before the theme is applied and persisted.
setTheme_DispatchFirst(w, themeName, tog, ok, now) ==
  IF themeName \notin supportedThemes THEN w
  ELSE LET previousTheme == w.currentTheme
           w1 == [w EXCEPT !.currentTheme = themeName]
           w2 == dispatchThemeChangeEvent(w1, themeName, previousTheme, now)
           w3 == applyThemeWithTransition(w2, themeName)
           w4 == IF tog THEN updateToggleButton(w3) ELSE w3
       IN persistTheme(w4, themeName, ok)

setTheme(w, themeName, tog, ok, now) ==
  IF themeName \notin supportedThemes THEN w
  ELSE LET previousTheme == w.currentTheme
           w1 == [w EXCEPT !.currentTheme = themeName]
           w2 == applyThemeWithTransition(w1, themeName)
           w3 == IF tog THEN updateToggleButton(w2) ELSE w2
           w4 == persistTheme(w3, themeName, ok)
       IN dispatchThemeChangeEvent(w4, themeName, previousTheme, now)

\* toggleTheme that always picks 'light'.
toggleTheme_AlwaysLight(w, tog, ok, now) ==
  setTheme(w, "light", tog, ok, now)

toggleTheme(w, tog, ok, now) ==
  setTheme(w, OtherTheme(w.currentTheme), tog, ok, now)

initializeTheme(w, ok, mm, light) ==
  LET savedTheme == getSavedTheme(w, ok)
      preferred == IF Falsy(savedTheme) THEN detectSystemTheme(mm, light)
                   ELSE savedTheme
      preferredTheme == IF preferred \notin supportedThemes THEN "dark"
                        ELSE preferred
      w1 == [w EXCEPT !.currentTheme = preferredTheme]
      w2 == applyThemeImmediate(w1, preferredTheme)
  IN persistTheme(w2, preferredTheme, ok)

setupThemeToggle(w, tog) == IF tog THEN updateToggleButton(w) ELSE w

\* new ThemeManager() on a freshly loaded page whose store holds `stored`.
NewThemeManager(stored, ok, tog, mm, light) ==
  LET w0 == [currentTheme |-> "dark", transitionTimeout |-> 0,
             dataTheme |-> NoValue, bodyTransitioning |-> FALSE,
             toggleLabel |-> NoLabel, storage |-> stored,
             themeEvents |-> <<>>, timers |-> {}, timerSeq |-> 0]
  IN setupThemeToggle(initializeTheme(w0, ok, mm, light), tog)

\* The 'change' listener on the media query, registered by setupThemeToggle
\* only when the toggle button and matchMedia both exist.
systemThemeListener(w, matches, tog, ok, mm, now) ==
  IF ~(tog /\ mm) THEN w
  ELSE IF Falsy(getSavedTheme(w, ok))
       THEN updateToggleButton(
              setTheme(w, IF matches THEN "light" ELSE "dark", tog, ok, now))
       ELSE w

cleanup(w) ==
  IF w.transitionTimeout # 0
  THEN [w EXCEPT !.timers = @ \ {w.transitionTimeout}, !.transitionTimeout = 0]
  ELSE w

ThemeStep(op, arg, w) ==
  /\ UNCHANGED <<navVars, lazyVars, animVars, appVars, formVars, blogVars, swVars, modalVars>>
  /\ themeOps < MaxThemeOps
  /\ ThemeWorldBecomes(w)
  /\ themeOps' = themeOps + 1
  /\ themeLast' = [op |-> op, arg |-> arg, pre |-> ThemeWorld]
  /\ themeLast2' = [op |-> themeLast.op, pre |-> themeLast.pre.currentTheme,
                    preData |-> themeLast.pre.dataTheme,
                    preStorage |-> themeLast.pre.storage]

ThemeInit ==
  /\ storageOK \in BOOLEAN
  /\ hasToggle \in BOOLEAN
  /\ hasMatchMedia \in BOOLEAN
  /\ osLight \in BOOLEAN
  /\ bootStorage \in (IF storageOK THEN StoredValues ELSE {NoValue})
  /\ bootOsLight = osLight
  /\ ThemeWorldIs(NewThemeManager(bootStorage, storageOK, hasToggle, hasMatchMedia, osLight))
  /\ themeOps = 0
  /\ userChose = FALSE
  /\ themeLast = [op |-> "construct", arg |-> NoValue,
                  pre |-> [currentTheme |-> "dark", transitionTimeout |-> 0,
                           dataTheme |-> NoValue, bodyTransitioning |-> FALSE,
                           toggleLabel |-> NoLabel, storage |-> bootStorage,
                           themeEvents |-> <<>>, timers |-> {}, timerSeq |-> 0]]
  /\ themeLast2 = [op |-> "none", pre |-> "dark", preData |-> NoValue,
                   preStorage |-> bootStorage]

\* themeManager.setTheme(name), called by page code.
SetTheme(name) ==
  /\ ThemeStep("setTheme", name,
               setTheme(ThemeWorld, name, hasToggle, storageOK, themeOps))
  /\ userChose' = (userChose \/ name \in supportedThemes)
  /\ UNCHANGED <<storageOK, hasToggle, hasMatchMedia, osLight, bootStorage, bootOsLight>>

\* themeManager.toggleTheme(), called by page code.
ToggleTheme ==
  /\ ThemeStep("toggleTheme", NoValue,
               toggleTheme(ThemeWorld, hasToggle, storageOK, themeOps))
  /\ userChose' = TRUE
  /\ UNCHANGED <<storageOK, hasToggle, hasMatchMedia, osLight, bootStorage, bootOsLight>>

\* A click on the .theme-toggle button.
ClickThemeToggle ==
  /\ hasToggle
  /\ ThemeStep("toggleTheme", "click",
               updateToggleButton(toggleTheme(ThemeWorld, hasToggle, storageOK, themeOps)))
  /\ userChose' = TRUE
  /\ UNCHANGED <<storageOK, hasToggle, hasMatchMedia, osLight, bootStorage, bootOsLight>>

\* The OS colour scheme flips; the media query fires 'change' on its listeners.
SystemThemeChange ==
  /\ osLight' = ~osLight
  /\ ThemeStep("systemChange", IF osLight' THEN "light" ELSE "dark",
               systemThemeListener(ThemeWorld, osLight', hasToggle, storageOK,
                                   hasMatchMedia, themeOps))
  /\ UNCHANGED <<storageOK, hasToggle, hasMatchMedia, bootStorage, bootOsLight, userChose>>

\* The callback of the pending transition timer runs.
TransitionTimerFires ==
  /\ \E id \in timers :
       ThemeStep("timer", NoValue,
                 [ThemeWorld EXCEPT !.timers = @ \ {id},
                                    !.bodyTransitioning = FALSE,
                                    !.transitionTimeout = 0])
  /\ UNCHANGED <<storageOK, hasToggle, hasMatchMedia, osLight, bootStorage, bootOsLight, userChose>>

\* themeManager.cleanup().
Cleanup ==
  /\ ThemeStep("cleanup", NoValue, cleanup(ThemeWorld))
  /\ UNCHANGED <<storageOK, hasToggle, hasMatchMedia, osLight, bootStorage, bootOsLight, userChose>>

\* The page is loaded again: a new ThemeManager is constructed over the store
\* the previous session left; the old page's timers and listeners are gone.
Reload ==
  /\ ThemeStep("construct", NoValue,
               NewThemeManager(storage, storageOK, hasToggle, hasMatchMedia, osLight))
  /\ bootStorage' = storage
  /\ bootOsLight' = osLight
  /\ userChose' = FALSE
  /\ UNCHANGED <<storageOK, hasToggle, hasMatchMedia, osLight>>

ThemeNext ==
  \/ \E name \in ThemeNames : SetTheme(name)
  \/ ToggleTheme
  \/ ClickThemeToggle
  \/ SystemThemeChange
  \/ TransitionTimerFires
  \/ Cleanup
  \/ Reload

(***************************************************************************)
(* NavigationManager                                                       *)
(***************************************************************************)
\* The in-page links of .nav-links, by the id their href points at.
NavLinkIds == <<"home", "about", "skills", "contact">>

\* The ids for which the document has an element.
SectionElements == {"home", "about", "projects", "blog", "contact"}

MobileBreakpoint == 768
ScrollPadding == 20
HeaderHeight == 80
SectionSpacing == 500

\* Widths the window is resized to.
Widths == {320, MobileBreakpoint, MobileBreakpoint + 1, 1024}

\* Keys pressed.
Keys == {"Escape", "Enter"}

\* Where a click lands: outside the nav, on the hamburger button, on a link of
\* .nav-links, on another element of .nav-links, elsewhere inside the nav.
ClickTargets ==
  {[kind |-> k, id |-> NoValue] : k \in {"outside", "hamburger", "navLinksItem", "navOther"}}
    \cup {[kind |-> "link", id |-> NavLinkIds[i]] : i \in DOMAIN NavLinkIds}

InsideNav(target) == target.kind # "outside"

\* this.sections: one entry per link whose target element exists, in link order.
collectSections == SelectSeq(NavLinkIds, LAMBDA id : id \in SectionElements)

SectionIds == {collectSections[i] : i \in DOMAIN collectSections}

\* offsetTop of a section element: the sections follow each other down the page.
OffsetTop(id) ==
  SectionSpacing * ((CHOOSE i \in DOMAIN collectSections : collectSections[i] = id) - 1)

NavWorld ==
  [mobileMenuOpen |-> mobileMenuOpen, navLinksOpen |-> navLinksOpen,
   hamburgerActive |-> hamburgerActive, ariaExpanded |-> ariaExpanded,
   bodyOverflow |-> bodyOverflow, activeSection |-> activeSection,
   activeLinks |-> activeLinks, sectionsObserved |-> sectionsObserved,
   innerWidth |-> innerWidth, scrollTop |-> scrollTop,
   scrollErrors |-> scrollErrors]

NavWorldIs(w) ==
  /\ mobileMenuOpen = w.mobileMenuOpen
  /\ navLinksOpen = w.navLinksOpen
  /\ hamburgerActive = w.hamburgerActive
  /\ ariaExpanded = w.ariaExpanded
  /\ bodyOverflow = w.bodyOverflow
  /\ activeSection = w.activeSection
  /\ activeLinks = w.activeLinks
  /\ sectionsObserved = w.sectionsObserved
  /\ innerWidth = w.innerWidth
  /\ scrollTop = w.scrollTop
  /\ scrollErrors = w.scrollErrors

NavWorldBecomes(w) ==
  /\ mobileMenuOpen' = w.mobileMenuOpen
  /\ navLinksOpen' = w.navLinksOpen
  /\ hamburgerActive' = w.hamburgerActive
  /\ ariaExpanded' = w.ariaExpanded
  /\ bodyOverflow' = w.bodyOverflow
  /\ activeSection' = w.activeSection
  /\ activeLinks' = w.activeLinks
  /\ sectionsObserved' = w.sectionsObserved
  /\ innerWidth' = w.innerWidth
  /\ scrollTop' = w.scrollTop
  /\ scrollErrors' = w.scrollErrors

\* openMobileMenu leaving aria-expanded as it was.
openMobileMenu_NoAria(w) ==
  [w EXCEPT !.mobileMenuOpen = TRUE, !.navLinksOpen = TRUE,
            !.hamburgerActive = TRUE, !.bodyOverflow = "hidden"]

openMobileMenu(w) ==
  [w EXCEPT !.mobileMenuOpen = TRUE, !.navLinksOpen = TRUE,
            !.hamburgerActive = TRUE, !.ariaExpanded = "true",
            !.bodyOverflow = "hidden"]

closeMobileMenu(w) ==
  [w EXCEPT !.mobileMenuOpen = FALSE, !.navLinksOpen = FALSE,
            !.hamburgerActive = FALSE, !.ariaExpanded = "false",
            !.bodyOverflow = ""]

toggleMobileMenu(w) ==
  IF w.mobileMenuOpen THEN closeMobileMenu(w) ELSE openMobileMenu(w)

updateActiveSection(w, sectionId) ==
  IF w.activeSection = sectionId THEN w
  ELSE [w EXCEPT !.activeSection = sectionId,
                 !.activeLinks = {id \in SectionIds : id = sectionId}]

smoothScrollToSection(w, id, header) ==
  IF id \notin SectionElements THEN w
  ELSE IF ~header THEN [w EXCEPT !.scrollErrors = TRUE]
  ELSE [w EXCEPT !.scrollTop = OffsetTop(id) - HeaderHeight - ScrollPadding]

\* The click listener of the hamburger button.
onHamburgerClick(w) == toggleMobileMenu(w)

\* The click listener of .nav-links.
onNavLinksClick(w, target, header) ==
  IF target.kind = "link"
  THEN smoothScrollToSection(closeMobileMenu(w), target.id, header)
  ELSE w

\* The click listener of the document.
onDocumentClick(w, target) ==
  IF w.mobileMenuOpen /\ ~InsideNav(target) THEN closeMobileMenu(w) ELSE w

\* A click travels from its target up to the document; the hamburger button's
\* listener stops it there.
dispatchClick(w, target, header) ==
  IF target.kind = "hamburger" THEN onHamburgerClick(w)
  ELSE IF target.kind \in {"link", "navLinksItem"}
       THEN onDocumentClick(onNavLinksClick(w, target, header), target)
       ELSE onDocumentClick(w, target)

\* The keydown listener of the document.
onKeydown(w, key) ==
  IF key = "Escape" /\ w.mobileMenuOpen THEN closeMobileMenu(w) ELSE w

\* The resize listener closing at the breakpoint itself.
onResize_AtBreakpoint(w, width) ==
  LET w1 == [w EXCEPT !.innerWidth = width]
  IN IF width >= MobileBreakpoint /\ w1.mobileMenuOpen THEN closeMobileMenu(w1) ELSE w1

\* The resize listener of the window.
onResize(w, width) ==
  LET w1 == [w EXCEPT !.innerWidth = width]
  IN IF width > MobileBreakpoint /\ w1.mobileMenuOpen THEN closeMobileMenu(w1) ELSE w1

RECURSIVE sectionObserverCallback(_, _)
\* The section observer's callback over one batch of entries.
sectionObserverCallback(w, entries) ==
  IF entries = <<>> THEN w
  ELSE LET entry == Head(entries)
           w1 == IF entry.isIntersecting THEN updateActiveSection(w, entry.target) ELSE w
       IN sectionObserverCallback(w1, Tail(entries))

\* Batches the section observer delivers: one or two entries for observed sections.
SectionEntries == [target : SectionIds, isIntersecting : BOOLEAN]

SectionBatches ==
  {<<e>> : e \in SectionEntries}
    \cup {b \in SectionEntries \X SectionEntries : b[1].target # b[2].target}

NavStep(op, arg, w) ==
  /\ UNCHANGED <<themeVars, lazyVars, animVars, appVars, formVars, blogVars, swVars, modalVars>>
  /\ NavWorldBecomes(w)
  /\ navLast' = [op |-> op, arg |-> arg, pre |-> NavWorld]
  /\ UNCHANGED hasHeader

\* new NavigationManager(nav) in a window of the given width: the menu closed,
\* 'home' taken as active, no link marked, the sections not yet handed to the
\* observer.
NewNavigationManager(width) ==
  [mobileMenuOpen |-> FALSE, navLinksOpen |-> FALSE,
   hamburgerActive |-> FALSE, ariaExpanded |-> "false",
   bodyOverflow |-> "", activeSection |-> "home",
   activeLinks |-> {}, sectionsObserved |-> FALSE,
   innerWidth |-> width, scrollTop |-> -1, scrollErrors |-> FALSE]

NavInit ==
  /\ hasHeader \in BOOLEAN
  /\ \E width \in Widths :
       /\ NavWorldIs(NewNavigationManager(width))
       /\ navLast = [op |-> "construct", arg |-> NoValue,
                     pre |-> NewNavigationManager(width)]

OpenMobileMenu ==
  /\ NavStep("openMobileMenu", NoValue, openMobileMenu(NavWorld))

CloseMobileMenu ==
  /\ NavStep("closeMobileMenu", NoValue, closeMobileMenu(NavWorld))

ToggleMobileMenu ==
  /\ NavStep("toggleMobileMenu", NoValue, toggleMobileMenu(NavWorld))

Click(target) ==
  /\ NavStep("click", target, dispatchClick(NavWorld, target, hasHeader))

Keydown(key) ==
  /\ NavStep("keydown", key, onKeydown(NavWorld, key))

Resize(width) ==
  /\ NavStep("resize", width, onResize(NavWorld, width))

\* The 100 ms timer of setupSectionObserver hands the sections to the observer.
ObserveSections ==
  /\ ~sectionsObserved
  /\ NavStep("observeSections", NoValue, [NavWorld EXCEPT !.sectionsObserved = TRUE])

SectionsIntersect(entries) ==
  /\ sectionsObserved
  /\ NavStep("intersection", entries, sectionObserverCallback(NavWorld, entries))

\* navigationManager.updateActiveSection(id), called by page code.
UpdateActiveSection(id) ==
  /\ NavStep("updateActiveSection", id, updateActiveSection(NavWorld, id))

NavNext ==
  \/ OpenMobileMenu
  \/ CloseMobileMenu
  \/ ToggleMobileMenu
  \/ \E target \in ClickTargets : Click(target)
  \/ \E key \in Keys : Keydown(key)
  \/ \E width \in Widths : Resize(width)
  \/ ObserveSections
  \/ \E entries \in SectionBatches : SectionsIntersect(entries)
  \/ \E id \in SectionIds : UpdateActiveSection(id)

(***************************************************************************)
(* LazyImageLoader                                                         *)
(***************************************************************************)
placeholderClass == "lazy-placeholder"
loadedClass == "lazy-loaded"
errorClass == "lazy-error"

DefaultWidth == 300
DefaultHeight == 200

\* The image elements of the page: 'hero' carries data-src only; 'card' carries
\* data-src and data-srcset, a src of its own and its dimensions.
ImageIds == {"hero", "card"}

NoSource == [kind |-> "none", url |-> "", width |-> 0, height |-> 0]

Url(u) == [kind |-> "url", url |-> u, width |-> 0, height |-> 0]

InitialElement(img) ==
  CASE img = "hero" ->
         [dataSrc |-> "hero.jpg", dataSrcset |-> NoValue, src |-> NoSource,
          srcset |-> NoValue, width |-> 0, height |-> 0, classes |-> {}]
    [] OTHER ->
         [dataSrc |-> "card.jpg", dataSrcset |-> "card-2x.jpg 2x",
          src |-> Url("thumb.jpg"), srcset |-> NoValue,
          width |-> 640, height |-> 480, classes |-> {}]

\* img.getAttribute('width') || 300, img.getAttribute('height') || 200.
WidthOf(el) == IF el.width = 0 THEN DefaultWidth ELSE el.width
HeightOf(el) == IF el.height = 0 THEN DefaultHeight ELSE el.height

\* The inline SVG showing "Loading...".
generatePlaceholder(el) ==
  [kind |-> "loading", url |-> "", width |-> WidthOf(el), height |-> HeightOf(el)]

\* The inline SVG showing "Failed to load".
errorPlaceholder(el) ==
  [kind |-> "failed", url |-> "", width |-> WidthOf(el), height |-> HeightOf(el)]

\* The images in document order.
DocumentOrder == <<"hero", "card">>

\* document.querySelectorAll('img[data-src], img[data-srcset]').
lazyImagesOf(w) ==
  SelectSeq(DocumentOrder,
            LAMBDA img : w.dom[img].dataSrc # NoValue \/ w.dom[img].dataSrcset # NoValue)

LazyWorld ==
  [images |-> images, observed |-> observed, dom |-> dom, loading |-> loading,
   observeCalls |-> observeCalls, placeholderCalls |-> placeholderCalls,
   everLeft |-> everLeft, unhandledRejection |-> unhandledRejection]

LazyWorldIs(w) ==
  /\ images = w.images
  /\ observed = w.observed
  /\ dom = w.dom
  /\ loading = w.loading
  /\ observeCalls = w.observeCalls
  /\ placeholderCalls = w.placeholderCalls
  /\ everLeft = w.everLeft
  /\ unhandledRejection = w.unhandledRejection

LazyWorldBecomes(w) ==
  /\ images' = w.images
  /\ observed' = w.observed
  /\ dom' = w.dom
  /\ loading' = w.loading
  /\ observeCalls' = w.observeCalls
  /\ placeholderCalls' = w.placeholderCalls
  /\ everLeft' = w.everLeft
  /\ unhandledRejection' = w.unhandledRejection

\* loadImage up to the start of the preload: with no deferred source the
\* promise resolves at once; otherwise a new Image() starts loading what the
\* attributes hold now. `caught` tells whether the caller attached .catch().
loadImage(w, img, caught) ==
  LET dataSrc == w.dom[img].dataSrc
      dataSrcset == w.dom[img].dataSrcset
  IN IF Falsy(dataSrc) /\ Falsy(dataSrcset) THEN w
     ELSE [w EXCEPT !.loading =
             Append(@, [img |-> img, dataSrc |-> dataSrc,
                        dataSrcset |-> dataSrcset, caught |-> caught])]

applyImageData(el, dataSrc, dataSrcset) ==
  LET e1 == IF ~Falsy(dataSrcset)
            THEN [el EXCEPT !.srcset = dataSrcset, !.dataSrcset = NoValue] ELSE el
  IN IF ~Falsy(dataSrc)
     THEN [e1 EXCEPT !.src = Url(dataSrc), !.dataSrc = NoValue] ELSE e1

handleImageError(el) == [el EXCEPT !.src = errorPlaceholder(el)]

RemoveAt(seq, k) == SubSeq(seq, 1, k - 1) \o SubSeq(seq, k + 1, Len(seq))

\* imageLoader.onload of the k-th preload in flight.
onload(w, k) ==
  LET p == w.loading[k]
      e1 == applyImageData(w.dom[p.img], p.dataSrc, p.dataSrcset)
      e2 == [e1 EXCEPT !.classes = (@ \ {placeholderClass}) \cup {loadedClass}]
  IN [w EXCEPT !.dom[p.img] = e2, !.loading = RemoveAt(@, k)]

\* imageLoader.onerror of the k-th preload in flight.
onerror(w, k) ==
  LET p == w.loading[k]
      e1 == [w.dom[p.img] EXCEPT !.classes = (@ \ {placeholderClass}) \cup {errorClass}]
      e2 == handleImageError(e1)
  IN [w EXCEPT !.dom[p.img] = e2, !.loading = RemoveAt(@, k),
               !.unhandledRejection = @ \/ ~p.caught]

\* observeImage without the this.images.has(img) check.
observeImage_NoHasCheck(w, img, io) ==
  LET el == w.dom[img]
      e1 == [el EXCEPT !.classes = @ \cup {placeholderClass}]
      e2 == IF e1.src = NoSource THEN [e1 EXCEPT !.src = generatePlaceholder(e1)] ELSE e1
      w1 == [w EXCEPT !.images = @ \cup {img}, !.dom[img] = e2,
                      !.placeholderCalls[img] = @ + 1]
  IN IF io THEN [w1 EXCEPT !.observed = @ \cup {img}, !.observeCalls[img] = @ + 1]
     ELSE loadImage(w1, img, FALSE)

observeImage(w, img, io) ==
  IF img \in w.images THEN w
  ELSE LET el == w.dom[img]
           e1 == [el EXCEPT !.classes = @ \cup {placeholderClass}]
           e2 == IF e1.src = NoSource THEN [e1 EXCEPT !.src = generatePlaceholder(e1)] ELSE e1
           w1 == [w EXCEPT !.images = @ \cup {img}, !.dom[img] = e2,
                           !.placeholderCalls[img] = @ + 1]
       IN IF io THEN [w1 EXCEPT !.observed = @ \cup {img}, !.observeCalls[img] = @ + 1]
          ELSE loadImage(w1, img, FALSE)

addImage(w, img, io) == observeImage(w, img, io)

RECURSIVE addImages(_, _, _)
addImages(w, list, io) ==
  IF list = <<>> THEN w
  ELSE addImages(addImage(w, Head(list), io), Tail(list), io)

observeImages(w, io) == addImages(w, lazyImagesOf(w), io)

RECURSIVE loadAllImages(_, _)
\* loadAllImages over the images of the list, each promise given a .catch().
loadAllImages(w, list) ==
  IF list = <<>> THEN w
  ELSE loadAllImages(loadImage(w, Head(list), TRUE), Tail(list))

\* handleIntersection clearing the placeholder as soon as the image is visible.
RECURSIVE handleIntersection_EagerClear(_, _)
handleIntersection_EagerClear(w, entries) ==
  IF entries = <<>> THEN w
  ELSE LET entry == Head(entries)
           img == entry.target
           w1 == IF entry.isIntersecting
                 THEN [loadImage(w, img, FALSE) EXCEPT
                         !.dom[img].classes = @ \ {placeholderClass},
                         !.observed = @ \ {img},
                         !.images = @ \ {img},
                         !.everLeft[img] = TRUE]
                 ELSE w
       IN handleIntersection_EagerClear(w1, Tail(entries))

RECURSIVE handleIntersection(_, _)
handleIntersection(w, entries) ==
  IF entries = <<>> THEN w
  ELSE LET entry == Head(entries)
           img == entry.target
           w1 == IF entry.isIntersecting
                 THEN [loadImage(w, img, FALSE) EXCEPT
                         !.observed = @ \ {img},
                         !.images = @ \ {img},
                         !.everLeft[img] = TRUE]
                 ELSE w
       IN handleIntersection(w1, Tail(entries))

destroy(w, io) ==
  [w EXCEPT !.observed = IF io THEN {} ELSE @,
            !.images = {},
            !.everLeft = [img \in ImageIds |-> @[img] \/ img \in w.images]]

\* new LazyImageLoader(): with an IntersectionObserver the deferred images of
\* the document are tracked and observed, without one they all start loading.
NewLazyImageLoader(io) ==
  LET w0 == [images |-> {}, observed |-> {},
             dom |-> [img \in ImageIds |-> InitialElement(img)],
             loading |-> <<>>,
             observeCalls |-> [img \in ImageIds |-> 0],
             placeholderCalls |-> [img \in ImageIds |-> 0],
             everLeft |-> [img \in ImageIds |-> FALSE],
             unhandledRejection |-> FALSE]
  IN IF io THEN observeImages(w0, io)
     ELSE loadAllImages(w0, lazyImagesOf(w0))

\* Lists handed to addImages.
ImageLists == {<<a>> : a \in ImageIds} \cup (ImageIds \X ImageIds)

\* Batches the observer delivers: one or two entries for observed targets; two
\* entries for one target report two different states of it.
EntriesOf(targets) == [target : targets, isIntersecting : BOOLEAN]

BatchesOf(targets) ==
  {<<e>> : e \in EntriesOf(targets)}
    \cup {b \in EntriesOf(targets) \X EntriesOf(targets) :
            b[1].target = b[2].target => b[1].isIntersecting # b[2].isIntersecting}

LazyStep(op, arg, w) ==
  /\ UNCHANGED <<themeVars, navVars, animVars, appVars, formVars, blogVars, swVars, hasIO, modalVars>>
  /\ Len(w.loading) <= MaxLoading
  /\ \A img \in ImageIds : w.observeCalls[img] <= MaxObserveCalls
  /\ \A img \in ImageIds : w.placeholderCalls[img] <= MaxObserveCalls
  /\ LazyWorldBecomes(w)
  /\ lazyLast' = [op |-> op, arg |-> arg, pre |-> LazyWorld]

LazyInit ==
  /\ hasIO \in BOOLEAN
  /\ LazyWorldIs(NewLazyImageLoader(hasIO))
  /\ lazyLast = [op |-> "construct", arg |-> NoValue, pre |-> NewLazyImageLoader(hasIO)]

AddImage(img) ==
  /\ LazyStep("addImage", img, addImage(LazyWorld, img, hasIO))

AddImages(list) ==
  /\ LazyStep("addImages", list, addImages(LazyWorld, list, hasIO))

\* lazyImageLoader.observeImages(), the re-scan page code runs after rendering.
ObserveImages ==
  /\ LazyStep("observeImages", NoValue, observeImages(LazyWorld, hasIO))

\* The IntersectionObserver calls back with a batch of entries.
Intersection(entries) ==
  /\ hasIO
  /\ LazyStep("intersection", entries, handleIntersection(LazyWorld, entries))

PreloadSucceeds(k) ==
  /\ LazyStep("onload", loading[k], onload(LazyWorld, k))

PreloadFails(k) ==
  /\ LazyStep("onerror", loading[k], onerror(LazyWorld, k))

Destroy ==
  /\ LazyStep("destroy", NoValue, destroy(LazyWorld, hasIO))

LazyNext ==
  \/ \E img \in ImageIds : AddImage(img)
  \/ \E list \in ImageLists : AddImages(list)
  \/ ObserveImages
  \/ \E entries \in BatchesOf(observed) : Intersection(entries)
  \/ \E k \in DOMAIN loading : PreloadSucceeds(k)
  \/ \E k \in DOMAIN loading : PreloadFails(k)
  \/ Destroy

(***************************************************************************)
(* AnimationEngine                                                         *)
(***************************************************************************)
\* The elements the engine works on: a .project-card that also carries
\* .fade-in, a button, and an anchor of .nav-links.
AnimElements == {"card", "button", "navLink"}

\* document.querySelectorAll('.fade-in, [data-animate="fade-in"]').
animatableElements == <<"card">>

\* element.matches('button, .cta-button, .submit-btn').
MatchesButton(el) == el = "button"

\* element.matches('.skill-item, .project-card, .article-card').
MatchesCard(el) == el = "card"

\* element.matches('.nav-links a').
MatchesNavLink(el) == el = "navLink"

\* The three queries of initializeMicroInteractions, in document order.
buttons == <<"button">>
cards == <<"card">>
navLinks == <<"navLink">>

\* window.pageYOffset values the page is scrolled to.
ScrollOffsets == {0, 100}

\* speed 0.5 of the parallax background: yPos = -(scrollY * speed).
ParallaxY(scrollY) == 0 - (scrollY \div 2)

NoStyle ==
  [opacity |-> "", transform |-> "", transition |-> "", boxShadow |-> "",
   color |-> "", textShadow |-> ""]

NoObserver == [live |-> FALSE, targets |-> {}]

\* The listeners addHoverEffects and addClickFeedback register.
ListenerKinds == {"hoverEnter", "hoverLeave", "clickDown", "clickUp", "clickLeave"}

PointerEvents == {"mouseenter", "mouseleave", "mousedown", "mouseup"}

EventOf(kind) ==
  CASE kind = "hoverEnter" -> "mouseenter"
    [] kind = "hoverLeave" -> "mouseleave"
    [] kind = "clickDown" -> "mousedown"
    [] kind = "clickUp" -> "mouseup"
    [] OTHER -> "mouseleave"

AnimWorld ==
  [isInitialized |-> isInitialized, scrollObserver |-> scrollObserver,
   animatedElements |-> animatedElements, parallaxElements |-> parallaxElements,
   scrollListener |-> scrollListener, parallaxBg |-> parallaxBg,
   parallaxY |-> parallaxY, pageYOffset |-> pageYOffset, style |-> style,
   visible |-> visible, hoverInitialized |-> hoverInitialized,
   clickInitialized |-> clickInitialized, listeners |-> listeners,
   animateCalls |-> animateCalls, attachCalls |-> attachCalls, fired |-> fired]

AnimWorldIs(w) ==
  /\ isInitialized = w.isInitialized
  /\ scrollObserver = w.scrollObserver
  /\ animatedElements = w.animatedElements
  /\ parallaxElements = w.parallaxElements
  /\ scrollListener = w.scrollListener
  /\ parallaxBg = w.parallaxBg
  /\ parallaxY = w.parallaxY
  /\ pageYOffset = w.pageYOffset
  /\ style = w.style
  /\ visible = w.visible
  /\ hoverInitialized = w.hoverInitialized
  /\ clickInitialized = w.clickInitialized
  /\ listeners = w.listeners
  /\ animateCalls = w.animateCalls
  /\ attachCalls = w.attachCalls
  /\ fired = w.fired

AnimWorldBecomes(w) ==
  /\ isInitialized' = w.isInitialized
  /\ scrollObserver' = w.scrollObserver
  /\ animatedElements' = w.animatedElements
  /\ parallaxElements' = w.parallaxElements
  /\ scrollListener' = w.scrollListener
  /\ parallaxBg' = w.parallaxBg
  /\ parallaxY' = w.parallaxY
  /\ pageYOffset' = w.pageYOffset
  /\ style' = w.style
  /\ visible' = w.visible
  /\ hoverInitialized' = w.hoverInitialized
  /\ clickInitialized' = w.clickInitialized
  /\ listeners' = w.listeners
  /\ animateCalls' = w.animateCalls
  /\ attachCalls' = w.attachCalls
  /\ fired' = w.fired

\* The inline style an element gets before it is observed.
hideForAnimation(st) ==
  [st EXCEPT !.opacity = "0", !.transform = "translateY(20px)",
             !.transition = "opacity 0.6s ease, transform 0.6s ease"]

RECURSIVE observeAnimatable(_, _)
\* The forEach of initializeScrollAnimations.
observeAnimatable(w, list) ==
  IF list = <<>> THEN w
  ELSE LET el == Head(list)
           w1 == IF el \notin w.visible
                 THEN [w EXCEPT !.style[el] = hideForAnimation(@)] ELSE w
           w2 == [w1 EXCEPT !.scrollObserver.targets = @ \cup {el}]
       IN observeAnimatable(w2, Tail(list))

initializeScrollAnimations(w) ==
  observeAnimatable([w EXCEPT !.scrollObserver = [live |-> TRUE, targets |-> {}]],
                    animatableElements)

animateElement(w, el) ==
  [w EXCEPT !.style[el].opacity = "1", !.style[el].transform = "translateY(0)",
            !.visible = @ \cup {el}, !.animateCalls[el] = @ + 1]

RECURSIVE animHandleIntersection(_, _)
\* AnimationEngine.handleIntersection.
animHandleIntersection(w, entries) ==
  IF entries = <<>> THEN w
  ELSE LET entry == Head(entries)
           w1 == IF entry.isIntersecting /\ entry.target \notin w.animatedElements
                 THEN [animateElement(w, entry.target) EXCEPT
                         !.animatedElements = @ \cup {entry.target}]
                 ELSE w
       IN animHandleIntersection(w1, Tail(entries))

\* addHoverEffects without the dataset.hoverInitialized check.
addHoverEffects_NoMarkerCheck(w, el) ==
  [w EXCEPT !.listeners[el] = @ \o <<"hoverEnter", "hoverLeave">>,
            !.hoverInitialized = @ \cup {el}, !.attachCalls[el] = @ + 1]

addHoverEffects(w, el) ==
  IF el \in w.hoverInitialized THEN [w EXCEPT !.attachCalls[el] = @ + 1]
  ELSE [w EXCEPT !.listeners[el] = @ \o <<"hoverEnter", "hoverLeave">>,
                 !.hoverInitialized = @ \cup {el}, !.attachCalls[el] = @ + 1]

addClickFeedback(w, el) ==
  IF el \in w.clickInitialized THEN [w EXCEPT !.attachCalls[el] = @ + 1]
  ELSE [w EXCEPT !.listeners[el] = @ \o <<"clickDown", "clickUp", "clickLeave">>,
                 !.clickInitialized = @ \cup {el}, !.attachCalls[el] = @ + 1]

RECURSIVE forEachButton(_, _)
\* buttons.forEach: hover effects and click feedback.
forEachButton(w, list) ==
  IF list = <<>> THEN w
  ELSE forEachButton(addClickFeedback(addHoverEffects(w, Head(list)), Head(list)),
                     Tail(list))

RECURSIVE forEachHoverable(_, _)
\* cards.forEach / navLinks.forEach: hover effects.
forEachHoverable(w, list) ==
  IF list = <<>> THEN w
  ELSE forEachHoverable(addHoverEffects(w, Head(list)), Tail(list))

initializeMicroInteractions(w) ==
  forEachHoverable(forEachHoverable(forEachButton(w, buttons), cards), navLinks)

\* The page has a .hero section: the background is created once, pushed to
\* parallaxElements, and the bound handleScroll is registered on window.
initializeParallaxScrolling(w) ==
  [w EXCEPT !.parallaxBg = TRUE, !.parallaxElements = @ + 1,
            !.scrollListener = TRUE]

handleScroll(w) ==
  IF w.parallaxElements > 0 THEN [w EXCEPT !.parallaxY = ParallaxY(w.pageYOffset)]
  ELSE w

animInit(w) ==
  IF w.isInitialized THEN w
  ELSE [initializeParallaxScrolling(
          initializeMicroInteractions(initializeScrollAnimations(w)))
        EXCEPT !.isInitialized = TRUE]

addScrollAnimation(w, el) ==
  IF ~w.scrollObserver.live THEN w
  ELSE [w EXCEPT !.style[el] = hideForAnimation(@),
                 !.scrollObserver.targets = @ \cup {el}]

addHoverEffect(w, el) ==
  LET w1 == addHoverEffects(w, el)
  IN IF MatchesButton(el) THEN addClickFeedback(w1, el) ELSE w1

animDestroy(w) ==
  [w EXCEPT !.scrollObserver = NoObserver, !.scrollListener = FALSE,
            !.parallaxElements = 0, !.animatedElements = {},
            !.isInitialized = FALSE]

\* What one listener does to the style of its element.
runListener(st, kind, el) ==
  CASE kind = "hoverEnter" ->
         LET s1 == [st EXCEPT !.transition = "all 0.3s ease"]
         IN IF MatchesButton(el)
            THEN [s1 EXCEPT !.transform = "translateY(-2px)",
                            !.boxShadow = "0 4px 12px rgba(255, 255, 255, 0.1)"]
            ELSE IF MatchesCard(el)
            THEN [s1 EXCEPT !.transform = "translateY(-3px)",
                            !.boxShadow = "0 8px 25px rgba(0, 0, 0, 0.3)"]
            ELSE IF MatchesNavLink(el)
            THEN [s1 EXCEPT !.color = "#ffffff",
                            !.textShadow = "0 0 8px rgba(255, 255, 255, 0.3)"]
            ELSE s1
    [] kind = "hoverLeave" ->
         LET s1 == [st EXCEPT !.transform = "", !.boxShadow = "", !.textShadow = ""]
         IN IF MatchesNavLink(el) THEN [s1 EXCEPT !.color = ""] ELSE s1
    [] kind = "clickDown" -> [st EXCEPT !.transform = "scale(0.98)"]
    [] OTHER -> [st EXCEPT !.transform = ""]

RECURSIVE runListeners(_, _, _, _)
\* Dispatch of one pointer event: the element's listeners for that event run
\* in the order they were registered.
runListeners(w, el, type, list) ==
  IF list = <<>> THEN w
  ELSE LET kind == Head(list)
           w1 == IF EventOf(kind) = type
                 THEN [w EXCEPT !.style[el] = runListener(@, kind, el),
                                !.fired = Append(@, kind)]
                 ELSE w
       IN runListeners(w1, el, type, Tail(list))

dispatchPointerEvent(w, el, type) ==
  runListeners([w EXCEPT !.fired = <<>>], el, type, w.listeners[el])

\* new AnimationEngine() over the document as it is now.
NewAnimationEngine(w) ==
  [w EXCEPT !.scrollObserver = NoObserver, !.parallaxElements = 0,
            !.animatedElements = {}, !.isInitialized = FALSE]

\* The document before any engine touched it.
FreshDocument ==
  [isInitialized |-> FALSE, scrollObserver |-> NoObserver,
   animatedElements |-> {}, parallaxElements |-> 0, scrollListener |-> FALSE,
   parallaxBg |-> FALSE, parallaxY |-> 0, pageYOffset |-> 0,
   style |-> [el \in AnimElements |-> NoStyle], visible |-> {},
   hoverInitialized |-> {}, clickInitialized |-> {},
   listeners |-> [el \in AnimElements |-> <<>>],
   animateCalls |-> [el \in AnimElements |-> 0],
   attachCalls |-> [el \in AnimElements |-> 0], fired |-> <<>>]

\* Entries the scroll observer delivers for its targets.
AnimEntries(targets) == [target : targets, isIntersecting : BOOLEAN]

\* Batches of one entry, or of two entries reporting one target twice.
AnimBatches(targets) ==
  {<<e>> : e \in AnimEntries(targets)}
    \cup {b \in AnimEntries(targets) \X AnimEntries(targets) :
            b[1].target = b[2].target /\ b[1].isIntersecting # b[2].isIntersecting}

AnimStep(op, arg, w) ==
  /\ UNCHANGED <<themeVars, navVars, lazyVars, appVars, formVars, blogVars, swVars, modalVars>>
  /\ animOps < MaxAnimOps
  /\ animOps' = animOps + 1
  /\ \A el \in AnimElements : w.animateCalls[el] <= MaxAnimateCalls
  /\ \A el \in AnimElements : Len(w.listeners[el]) <= 2 * Cardinality(ListenerKinds)
  /\ AnimWorldBecomes(w)
  /\ animLast' = [op |-> op, arg |-> arg, pre |-> AnimWorld]

\* PortfolioApp.initializeComponents: new AnimationEngine() and init().
AnimInit ==
  /\ AnimWorldIs(animInit(NewAnimationEngine(FreshDocument)))
  /\ animOps = 0
  /\ animLast = [op |-> "construct", arg |-> NoValue, pre |-> FreshDocument]

EngineInit ==
  /\ AnimStep("init", NoValue, animInit(AnimWorld))

EngineDestroy ==
  /\ AnimStep("destroy", NoValue, animDestroy(AnimWorld))

\* reinitializeComponents: the engine is destroyed and a new one initialized.
EngineRecreate ==
  /\ AnimStep("recreate", NoValue,
              animInit(NewAnimationEngine(animDestroy(AnimWorld))))

AddScrollAnimation(el) ==
  /\ AnimStep("addScrollAnimation", el, addScrollAnimation(AnimWorld, el))

AddHoverEffect(el) ==
  /\ AnimStep("addHoverEffect", el, addHoverEffect(AnimWorld, el))

AddClickFeedback(el) ==
  /\ AnimStep("addClickFeedback", el, addClickFeedback(AnimWorld, el))

ScrollIntersection(entries) ==
  /\ scrollObserver.live
  /\ AnimStep("intersection", entries, animHandleIntersection(AnimWorld, entries))

PointerEvent(el, type) ==
  /\ AnimStep("pointer", [el |-> el, type |-> type],
              dispatchPointerEvent(AnimWorld, el, type))

\* The window scrolls; the engine's listener, while registered, follows.
Scroll(y) ==
  /\ AnimStep("scroll", y,
              IF scrollListener THEN handleScroll([AnimWorld EXCEPT !.pageYOffset = y])
              ELSE [AnimWorld EXCEPT !.pageYOffset = y])

AnimNext ==
  \/ EngineInit
  \/ EngineDestroy
  \/ EngineRecreate
  \/ \E el \in AnimElements : AddScrollAnimation(el)
  \/ \E el \in AnimElements : AddHoverEffect(el)
  \/ \E el \in AnimElements : AddClickFeedback(el)
  \/ \E entries \in AnimBatches(scrollObserver.targets) : ScrollIntersection(entries)
  \/ \E el \in AnimElements, type \in PointerEvents : PointerEvent(el, type)
  \/ \E y \in ScrollOffsets : Scroll(y)

(***************************************************************************)
(* PortfolioApp                                                            *)
(***************************************************************************)
ComponentNames ==
  {"themeManager", "lazyImageLoader", "animationEngine", "navigationManager",
   "projectGallery", "blogSystem", "contactForm", "skillsTimeline"}

\* The classes with a destroy() method.
HasDestroy(name) == name \in {"animationEngine", "lazyImageLoader"}

Datasets == <<"projects", "articles", "timeline">>
DatasetNames == {"projects", "articles", "timeline"}

\* What a dataset holds: nothing yet, the decoded file, or the fallback.
NotLoaded == "null"
RealData == "real"
EmptyData == "empty"

\* nav, .nav-links inside nav, #projects, #blog, #contact-form, .skills-timeline.
FullStructure == {"nav", "navLinks", "projects", "blog", "contactForm", "skillsTimeline"}

\* The documents considered: complete, or lacking one container (or the nav
\* with its links).
Structures ==
  {FullStructure} \cup {FullStructure \ {x} : x \in FullStructure \ {"nav"}}
    \cup {FullStructure \ {"nav", "navLinks"}}

\* Which components expose onThemeChange / onNavigationChange.
HookChoices ==
  {[theme |-> {}, nav |-> {}],
   [theme |-> {"blogSystem"}, nav |-> {}],
   [theme |-> {"projectGallery", "navigationManager"}, nav |-> {"navigationManager"}]}

ThemePayloads ==
  {[theme |-> "light", previousTheme |-> "dark"],
   [theme |-> "dark", previousTheme |-> "light"]}

NavPayloads == {"about"}

\* What the pending callbacks do: re-scan a container for images and
\* animations, or mark the home link.
TimerKinds == {"rescan", "activateHome"}

NoInstance == [gen |-> 0, destroyed |-> FALSE, data |-> NotLoaded]

AppWorld ==
  [appPc |-> appPc, readyState |-> readyState, data |-> data, fetched |-> fetched,
   fields |-> fields, registry |-> registry, nextGen |-> nextGen,
   destroyedGens |-> destroyedGens, themeSubs |-> themeSubs, navSubs |-> navSubs,
   domPending |-> domPending, appTimers |-> appTimers, hookLog |-> hookLog,
   dynamicTheme |-> dynamicTheme, uncaught |-> uncaught, initFailed |-> initFailed,
   preload |-> preload]

AppWorldIs(w) ==
  /\ appPc = w.appPc
  /\ readyState = w.readyState
  /\ data = w.data
  /\ fetched = w.fetched
  /\ fields = w.fields
  /\ registry = w.registry
  /\ nextGen = w.nextGen
  /\ destroyedGens = w.destroyedGens
  /\ themeSubs = w.themeSubs
  /\ navSubs = w.navSubs
  /\ domPending = w.domPending
  /\ appTimers = w.appTimers
  /\ hookLog = w.hookLog
  /\ dynamicTheme = w.dynamicTheme
  /\ uncaught = w.uncaught
  /\ initFailed = w.initFailed
  /\ preload = w.preload

AppWorldBecomes(w) ==
  /\ appPc' = w.appPc
  /\ readyState' = w.readyState
  /\ data' = w.data
  /\ fetched' = w.fetched
  /\ fields' = w.fields
  /\ registry' = w.registry
  /\ nextGen' = w.nextGen
  /\ destroyedGens' = w.destroyedGens
  /\ themeSubs' = w.themeSubs
  /\ navSubs' = w.navSubs
  /\ domPending' = w.domPending
  /\ appTimers' = w.appTimers
  /\ hookLog' = w.hookLog
  /\ dynamicTheme' = w.dynamicTheme
  /\ uncaught' = w.uncaught
  /\ initFailed' = w.initFailed
  /\ preload' = w.preload

InRegistry(w, name) == \E i \in DOMAIN w.registry : w.registry[i] = name

\* this.<field> = new Class(...); this.components.set(name, this.<field>).
construct(w, name, d) ==
  [w EXCEPT !.fields[name] = [gen |-> w.nextGen + 1, destroyed |-> FALSE, data |-> d],
            !.nextGen = @ + 1,
            !.registry = IF InRegistry(w, name) THEN @ ELSE Append(@, name)]

setTimer(w, kind) == [w EXCEPT !.appTimers[kind] = @ + 1]

RECURSIVE callHooks(_, _, _, _, _)
\* this.components.forEach: the components exposing the hook are called.
callHooks(w, names, hook, hooked, payload) ==
  IF names = <<>> THEN w
  ELSE LET name == Head(names)
           w1 == IF w.fields[name] # NoInstance /\ name \in hooked
                 THEN [w EXCEPT !.hookLog =
                         Append(@, [hook |-> hook, name |-> name,
                                    gen |-> w.fields[name].gen, payload |-> payload])]
                 ELSE w
       IN callHooks(w1, Tail(names), hook, hooked, payload)

handleThemeChange(w, themeData, hooked) ==
  [callHooks(w, w.registry, "onThemeChange", hooked, themeData)
     EXCEPT !.dynamicTheme = themeData.theme]

handleNavigationChange(w, navigationData, hooked) ==
  callHooks(w, w.registry, "onNavigationChange", hooked, navigationData)

\* handleThemeChange with the theme the ThemeManager holds; the app's
\* ThemeManager is the one of a dark page.
applyThemeToAllComponents(w, hooked) ==
  IF w.fields["themeManager"] = NoInstance THEN w
  ELSE handleThemeChange(w, [theme |-> "dark", previousTheme |-> NoValue], hooked)

connectNavigationToSections(w) ==
  IF w.fields["navigationManager"] = NoInstance THEN w
  ELSE setTimer(w, "activateHome")

\* A container component: constructed when its container exists and its
\* dataset is set; the re-scan of images and animations is scheduled.
initContainer(w, has, name, dataset, timer) ==
  IF has /\ w.data[dataset] # NotLoaded
  THEN setTimer(construct(w, name, w.data[dataset]), timer)
  ELSE w

\* initializeComponents: the world it leaves and whether it threw. The
\* NavigationManager constructor throws a TypeError on a nav without
\* .nav-links (this.navLinks.addEventListener on null).
initializeComponents(w, doc, hooked) ==
  LET w1 == construct(w, "animationEngine", NotLoaded)
      w2 == IF "nav" \in doc THEN construct(w1, "navigationManager", NotLoaded) ELSE w1
      w3 == initContainer(w2, "projects" \in doc, "projectGallery", "projects",
                          "rescan")
      w4 == initContainer(w3, "blog" \in doc, "blogSystem", "articles", "rescan")
      w5 == IF "contactForm" \in doc THEN construct(w4, "contactForm", NotLoaded) ELSE w4
      w6 == initContainer(w5, "skillsTimeline" \in doc, "skillsTimeline", "timeline",
                          "rescan")
  IN IF "nav" \in doc /\ "navLinks" \notin doc
     THEN [thrown |-> TRUE, world |-> w1]
     ELSE [thrown |-> FALSE,
           world |-> applyThemeToAllComponents(connectNavigationToSections(w6), hooked)]

setupComponentInteractions(w) ==
  [w EXCEPT !.themeSubs = @ + 1, !.navSubs = @ + 1]

\* init() from the end of loadData on: components now or at DOMContentLoaded,
\* then the subscriptions; an exception skips to the catch block; the preload
\* class is removed in either case.
afterLoadData(w, doc, hooked) ==
  LET r == IF w.readyState = "loading"
           THEN [thrown |-> FALSE, world |-> [w EXCEPT !.domPending = TRUE]]
           ELSE initializeComponents(w, doc, hooked)
      w1 == IF r.thrown THEN [r.world EXCEPT !.initFailed = TRUE]
            ELSE setupComponentInteractions(r.world)
  IN [w1 EXCEPT !.preload = FALSE, !.appPc = "running"]

\* init() constructing the LazyImageLoader before the ThemeManager.
startInit_LazyFirst(w) ==
  [construct(construct(w, "lazyImageLoader", NotLoaded), "themeManager", NotLoaded)
     EXCEPT !.appPc = "projects", !.hookLog = <<>>]

\* init() up to the first await: the two early components.
startInit(w) ==
  [construct(construct(w, "themeManager", NotLoaded), "lazyImageLoader", NotLoaded)
     EXCEPT !.appPc = "projects", !.hookLog = <<>>]

NextDataset(ds) ==
  CASE ds = "projects" -> "articles"
    [] ds = "articles" -> "timeline"
    [] OTHER -> "loaded"

\* loadData at the settling of one fetch (with its json()): success stores the
\* dataset and moves on; failure lands in the one catch block, which sets all
\* three datasets to their empty structures.
fetchSettles(w, ok, doc, hooked) ==
  LET ds == w.appPc
      w0 == [w EXCEPT !.hookLog = <<>>]
  IN IF ok
     THEN LET w1 == [w0 EXCEPT !.data[ds] = RealData, !.fetched[ds] = "ok",
                               !.appPc = NextDataset(ds)]
          IN IF w1.appPc = "loaded" THEN afterLoadData(w1, doc, hooked) ELSE w1
     ELSE afterLoadData([w0 EXCEPT !.data = [d \in DatasetNames |-> EmptyData],
                                   !.fetched[ds] = "failed"],
                        doc, hooked)

\* The DOMContentLoaded listener of init(): an exception in it is uncaught.
onDOMContentLoaded(w, doc, hooked) ==
  LET w0 == [w EXCEPT !.readyState = "interactive", !.hookLog = <<>>]
  IN IF ~w.domPending THEN w0
     ELSE LET r == initializeComponents([w0 EXCEPT !.domPending = FALSE], doc, hooked)
          IN [r.world EXCEPT !.uncaught = @ \/ r.thrown]

RECURSIVE deliver(_, _, _, _, _)
\* One event on window: each of the app's listeners for it runs.
deliver(w, n, hook, hooked, payload) ==
  IF n = 0 THEN w
  ELSE deliver(IF hook = "onThemeChange" THEN handleThemeChange(w, payload, hooked)
               ELSE handleNavigationChange(w, payload, hooked),
               n - 1, hook, hooked, payload)

RECURSIVE destroyAll(_, _)
\* The first loop of reinitializeComponents.
destroyAll(w, names) ==
  IF names = <<>> THEN w
  ELSE LET name == Head(names)
           w1 == IF w.fields[name] # NoInstance /\ HasDestroy(name)
                 THEN [w EXCEPT !.fields[name].destroyed = TRUE,
                                !.destroyedGens = @ \cup {w.fields[name].gen}]
                 ELSE w
       IN destroyAll(w1, Tail(names))

reinitializeComponents(w, doc, hooked) ==
  LET w1 == [destroyAll([w EXCEPT !.hookLog = <<>>], w.registry) EXCEPT !.registry = <<>>]
      r == initializeComponents(w1, doc, hooked)
  IN [r.world EXCEPT !.uncaught = @ \/ r.thrown]

areAllComponentsInitialized(w) ==
  \A name \in {"themeManager", "animationEngine", "lazyImageLoader"} :
    InRegistry(w, name)

\* new PortfolioApp().
NewPortfolioApp(rs) ==
  [appPc |-> "created", readyState |-> rs,
   data |-> [d \in DatasetNames |-> NotLoaded],
   fetched |-> [d \in DatasetNames |-> "notFetched"],
   fields |-> [name \in ComponentNames |-> NoInstance],
   registry |-> <<>>, nextGen |-> 0, destroyedGens |-> {},
   themeSubs |-> 0, navSubs |-> 0, domPending |-> FALSE,
   appTimers |-> [k \in TimerKinds |-> 0], hookLog |-> <<>>,
   dynamicTheme |-> NoValue, uncaught |-> FALSE, initFailed |-> FALSE,
   preload |-> TRUE]

AppStep(op, arg, w) ==
  /\ UNCHANGED <<themeVars, navVars, lazyVars, animVars, formVars, blogVars, swVars, modalVars>>
  /\ UNCHANGED <<structure, themeHooks, navHooks>>
  /\ AppWorldBecomes(w)
  /\ appLast' = [op |-> op, arg |-> arg, pre |-> AppWorld]

AppInit ==
  /\ structure \in Structures
  /\ \E h \in HookChoices : themeHooks = h.theme /\ navHooks = h.nav
  /\ \E rs \in {"loading", "complete"} : AppWorldIs(NewPortfolioApp(rs))
  /\ appOps = 0
  /\ appLast = [op |-> "construct", arg |-> NoValue, pre |-> NoValue]

\* app.init() up to its first await.
StartInit ==
  /\ appPc = "created"
  /\ UNCHANGED appOps
  /\ AppStep("init", NoValue, startInit(AppWorld))

\* The fetch loadData awaits settles.
FetchSettles(ok) ==
  /\ appPc \in DatasetNames
  /\ UNCHANGED appOps
  /\ AppStep("fetch", [dataset |-> appPc, ok |-> ok],
             fetchSettles(AppWorld, ok, structure, themeHooks))

DOMContentLoaded ==
  /\ readyState = "loading"
  /\ UNCHANGED appOps
  /\ AppStep("DOMContentLoaded", NoValue,
             onDOMContentLoaded(AppWorld, structure, themeHooks))

\* A themeChanged event reaches window.
ThemeChanged(payload) ==
  /\ appPc # "created"
  /\ appOps < MaxAppOps /\ appOps' = appOps + 1
  /\ AppStep("themeChanged", payload,
             deliver([AppWorld EXCEPT !.hookLog = <<>>], themeSubs, "onThemeChange",
                     themeHooks, payload))

\* A navigationChanged event reaches window.
NavigationChanged(payload) ==
  /\ appPc # "created"
  /\ appOps < MaxAppOps /\ appOps' = appOps + 1
  /\ AppStep("navigationChanged", payload,
             deliver([AppWorld EXCEPT !.hookLog = <<>>], navSubs, "onNavigationChange",
                     navHooks, payload))

Reinitialize ==
  /\ appPc = "running" /\ ~domPending
  /\ appOps < MaxAppOps /\ appOps' = appOps + 1
  /\ AppStep("reinitializeComponents", NoValue,
             reinitializeComponents(AppWorld, structure, themeHooks))

\* One of the setTimeout callbacks of initializeComponents runs.
AppTimerFires(kind) ==
  /\ appTimers[kind] > 0
  /\ UNCHANGED appOps
  /\ AppStep("timer", kind,
             [AppWorld EXCEPT !.appTimers[kind] = @ - 1, !.hookLog = <<>>])

AppNext ==
  \/ StartInit
  \/ \E ok \in BOOLEAN : FetchSettles(ok)
  \/ DOMContentLoaded
  \/ \E payload \in ThemePayloads : ThemeChanged(payload)
  \/ \E payload \in NavPayloads : NavigationChanged(payload)
  \/ Reinitialize
  \/ \E kind \in TimerKinds : AppTimerFires(kind)

(***************************************************************************)
(* ContactForm                                                             *)
(***************************************************************************)
\* Strings are sequences of runs: n times the character ch.
Run(ch, n) == [ch |-> ch, n |-> n]

Letters == {"a", "x"}
Whitespace == {" "}

RECURSIVE StrLen(_)
\* value.length
StrLen(str) == IF str = <<>> THEN 0 ELSE Head(str).n + StrLen(Tail(str))

RECURSIVE trimStart(_)
trimStart(str) ==
  IF str = <<>> THEN <<>>
  ELSE IF Head(str).ch \in Whitespace THEN trimStart(Tail(str)) ELSE str

RECURSIVE trimEnd(_)
trimEnd(str) ==
  IF str = <<>> THEN <<>>
  ELSE IF str[Len(str)].ch \in Whitespace THEN trimEnd(SubSeq(str, 1, Len(str) - 1))
       ELSE str

\* String.prototype.trim
trim(str) == trimEnd(trimStart(str))

RECURSIVE Chars(_)
\* The characters of a string, one by one.
Chars(str) ==
  IF str = <<>> THEN <<>>
  ELSE [i \in 1..Head(str).n |-> Head(str).ch] \o Chars(Tail(str))

\* /^[a-zA-Z\s]+$/.test(str)
namePattern(str) ==
  /\ str # <<>>
  /\ \A i \in DOMAIN str : str[i].ch \in Letters \cup Whitespace

\* /^[^\s@]+@[^\s@]+\.[^\s@]+$/.test(str)
emailPattern(str) ==
  LET c == Chars(str)
      Plain(a, b) == a <= b /\ \A k \in a..b : c[k] \notin Whitespace \cup {"@"}
  IN \E i \in DOMAIN c, j \in DOMAIN c :
       /\ c[i] = "@" /\ c[j] = "."
       /\ Plain(1, i - 1) /\ Plain(i + 1, j - 1) /\ Plain(j + 1, Len(c))

FieldNames == <<"name", "email", "subject", "message">>
FieldSet == {"name", "email", "subject", "message"}

\* this.validationRules; 0 stands for a length rule the field does not have.
validationRules ==
  [name |-> [required |-> TRUE, minLength |-> 2, maxLength |-> 0, pattern |-> "name",
             message |-> "Name must contain only letters and spaces, minimum 2 characters"],
   email |-> [required |-> TRUE, minLength |-> 0, maxLength |-> 0, pattern |-> "email",
              message |-> "Please enter a valid email address"],
   subject |-> [required |-> TRUE, minLength |-> 5, maxLength |-> 100, pattern |-> "none",
                message |-> "Subject must be between 5 and 100 characters"],
   message |-> [required |-> TRUE, minLength |-> 10, maxLength |-> 1000, pattern |-> "none",
                message |-> "Message must be between 10 and 1000 characters"]]

\* rules.pattern.test(value), for the rules that have a pattern.
patternTest(pattern, str) ==
  CASE pattern = "name" -> namePattern(str)
    [] pattern = "email" -> emailPattern(str)
    [] OTHER -> TRUE

\* capitalizeFirst(fieldName) + ' is required'
requiredMessage(fieldName) ==
  CASE fieldName = "name" -> "Name is required"
    [] fieldName = "email" -> "Email is required"
    [] fieldName = "subject" -> "Subject is required"
    [] OTHER -> "Message is required"

\* The verdict of validateField on field.value: valid, or the message to show.
fieldVerdict(fieldName, raw) ==
  LET rules == validationRules[fieldName]
      value == trim(raw)
  IN IF rules.required /\ value = <<>>
     THEN [isValid |-> FALSE, errorMessage |-> requiredMessage(fieldName)]
     ELSE IF value # <<>> /\ rules.pattern # "none" /\ ~patternTest(rules.pattern, value)
     THEN [isValid |-> FALSE, errorMessage |-> rules.message]
     ELSE IF value # <<>> /\ rules.minLength # 0 /\ StrLen(value) < rules.minLength
     THEN [isValid |-> FALSE, errorMessage |-> rules.message]
     ELSE IF value # <<>> /\ rules.maxLength # 0 /\ StrLen(value) > rules.maxLength
     THEN [isValid |-> FALSE, errorMessage |-> rules.message]
     ELSE [isValid |-> TRUE, errorMessage |-> ""]

FormWorld ==
  [values |-> values, borderColor |-> borderColor, errorElements |-> errorElements,
   hideTimers |-> hideTimers, submitPending |-> submitPending,
   successElement |-> successElement, successTimers |-> successTimers,
   successFadeTimers |-> successFadeTimers, lastValid |-> lastValid,
   formResult |-> formResult]

FormWorldIs(w) ==
  /\ values = w.values
  /\ borderColor = w.borderColor
  /\ errorElements = w.errorElements
  /\ hideTimers = w.hideTimers
  /\ submitPending = w.submitPending
  /\ successElement = w.successElement
  /\ successTimers = w.successTimers
  /\ successFadeTimers = w.successFadeTimers
  /\ lastValid = w.lastValid
  /\ formResult = w.formResult

FormWorldBecomes(w) ==
  /\ values' = w.values
  /\ borderColor' = w.borderColor
  /\ errorElements' = w.errorElements
  /\ hideTimers' = w.hideTimers
  /\ submitPending' = w.submitPending
  /\ successElement' = w.successElement
  /\ successTimers' = w.successTimers
  /\ successFadeTimers' = w.successFadeTimers
  /\ lastValid' = w.lastValid
  /\ formResult' = w.formResult

showError(w, fieldName, message) ==
  [w EXCEPT !.errorElements[fieldName] =
              [textContent |-> message, display |-> "block", opacity |-> "1"]]

\* hideError: faded at once, removed from the layout by a timer.
hideError(w, fieldName) ==
  [w EXCEPT !.errorElements[fieldName].opacity = "0",
            !.hideTimers[fieldName] = @ + 1]

validateField(w, fieldName) ==
  LET v == fieldVerdict(fieldName, w.values[fieldName])
      w1 == IF v.isValid
            THEN hideError([w EXCEPT !.borderColor[fieldName] = "rgba(34, 197, 94, 0.3)"],
                           fieldName)
            ELSE showError([w EXCEPT !.borderColor[fieldName] = "rgba(239, 68, 68, 0.5)"],
                           fieldName, v.errorMessage)
  IN [w1 EXCEPT !.formResult = v.isValid, !.lastValid[fieldName] = v.isValid]

RECURSIVE validateFields(_, _, _)
\* The forEach of validateAllFields: every field is validated.
validateFields(w, names, allValid) ==
  IF names = <<>> THEN [w EXCEPT !.formResult = allValid]
  ELSE LET w1 == validateField(w, Head(names))
       IN validateFields(w1, Tail(names), allValid /\ w1.formResult)

validateAllFields(w) == validateFields(w, FieldNames, TRUE)

\* The callback of hideError's timer.
hideTimerFires(w, fieldName) ==
  [w EXCEPT !.errorElements[fieldName].display = "none",
            !.hideTimers[fieldName] = @ - 1]

SuccessMessage == "Thank you for your message! I will get back to you soon."

\* showSuccess: shown at once, a 5 s timer started to fade it.
showSuccess(w, message) ==
  [w EXCEPT !.successElement =
              [textContent |-> message, display |-> "block", opacity |-> "1"],
            !.successTimers = @ + 1]

\* The callback of showSuccess's 5 s timer: faded, a 300 ms timer started.
successTimerFires(w) ==
  [w EXCEPT !.successElement.opacity = "0",
            !.successTimers = @ - 1,
            !.successFadeTimers = @ + 1]

\* The callback of the 300 ms timer.
successFadeTimerFires(w) ==
  [w EXCEPT !.successElement.display = "none",
            !.successFadeTimers = @ - 1]

RECURSIVE hideErrors(_, _)
\* The second forEach of clearForm.
hideErrors(w, names) ==
  IF names = <<>> THEN w
  ELSE hideErrors(hideError(w, Head(names)), Tail(names))

\* clearForm: form.reset(), the borders reset, every error message hidden.
clearForm(w) ==
  hideErrors([w EXCEPT !.values = [f \in FieldSet |-> <<>>],
                       !.borderColor = [f \in FieldSet |-> ""]],
             FieldNames)

\* handleSubmit: an invalid form is not submitted.
handleSubmit(w) ==
  LET w1 == validateAllFields(w)
  IN IF ~w1.formResult THEN w1
     ELSE [w1 EXCEPT !.submitPending = @ + 1]

\* submitForm once its 1 s delay is over.
submitSettles(w) ==
  clearForm(showSuccess([w EXCEPT !.submitPending = @ - 1], SuccessMessage))

\* What the visitor may have typed into each field.
Repeat(ch, n) == <<Run(ch, n)>>

FieldValues ==
  [name |-> {<<>>, Repeat("a", 2), <<Run("a", 1), Run(" ", 1)>>,
             <<Run("a", 1), Run("1", 1)>>},
   email |-> {<<>>,
              <<Run("a", 1), Run("@", 1), Run("x", 1), Run(".", 1), Run("a", 1)>>,
              <<Run("a", 1), Run("@", 1), Run("x", 1)>>,
              <<Run("a", 1), Run("@", 2), Run("x", 1), Run(".", 1), Run("a", 1)>>},
   subject |-> {Repeat("x", 4), Repeat("x", 5), Repeat("x", 100),
                <<Run("x", 100), Run(" ", 1)>>, Repeat("x", 101)},
   message |-> {Repeat("x", 9), Repeat("x", 10), Repeat("x", 1000),
                Repeat("x", 1001)}]

\* What the visitor types next: a good and a bad value per field.
TypedValues ==
  [name |-> {Repeat("a", 2), <<Run("a", 1), Run("1", 1)>>},
   email |-> {<<Run("a", 1), Run("@", 1), Run("x", 1), Run(".", 1), Run("a", 1)>>,
              <<Run("a", 1), Run("@", 1), Run("x", 1)>>},
   subject |-> {Repeat("x", 5), Repeat("x", 4)},
   message |-> {Repeat("x", 10), Repeat("x", 9)}]

\* new ContactForm(form): the error elements are created hidden.
NewContactForm(vals) ==
  [values |-> vals,
   borderColor |-> [f \in FieldSet |-> ""],
   errorElements |-> [f \in FieldSet |->
                        [textContent |-> "", display |-> "none", opacity |-> "0"]],
   hideTimers |-> [f \in FieldSet |-> 0],
   submitPending |-> 0,
   successElement |-> [textContent |-> "", display |-> "none", opacity |-> "0"],
   successTimers |-> 0,
   successFadeTimers |-> 0,
   lastValid |-> [f \in FieldSet |-> TRUE],
   formResult |-> TRUE]

FormStep(op, arg, w) ==
  /\ UNCHANGED <<themeVars, navVars, lazyVars, animVars, appVars, blogVars, swVars, modalVars>>
  /\ \A f \in FieldSet : w.hideTimers[f] <= MaxHideTimers
  /\ w.successTimers <= MaxHideTimers
  /\ w.successFadeTimers <= MaxHideTimers
  /\ FormWorldBecomes(w)
  /\ formLast' = [op |-> op, arg |-> arg, pre |-> FormWorld]

FormInit ==
  /\ \E n \in FieldValues.name, e \in FieldValues.email,
        sb \in FieldValues.subject, m \in FieldValues.message :
       FormWorldIs(NewContactForm([name |-> n, email |-> e, subject |-> sb,
                                   message |-> m]))
  /\ formOps = 0
  /\ formLast = [op |-> "construct", arg |-> NoValue, pre |-> NoValue]

\* contactForm.validateAllFields() / isFormValid().
ValidateAllFields ==
  /\ formOps < MaxFormOps /\ formOps' = formOps + 1
  /\ FormStep("validateAllFields", NoValue, validateAllFields(FormWorld))

\* The visitor types into a field: the input listener validates it.
InputEvent(fieldName, v) ==
  /\ formOps < MaxFormOps /\ formOps' = formOps + 1
  /\ FormStep("input", fieldName,
              validateField([FormWorld EXCEPT !.values[fieldName] = v], fieldName))

\* The visitor leaves a field: the blur listener validates it.
BlurEvent(fieldName) ==
  /\ formOps < MaxFormOps /\ formOps' = formOps + 1
  /\ FormStep("blur", fieldName, validateField(FormWorld, fieldName))

HideTimerFires(fieldName) ==
  /\ hideTimers[fieldName] > 0
  /\ UNCHANGED formOps
  /\ FormStep("hideTimer", fieldName, hideTimerFires(FormWorld, fieldName))

\* The visitor submits the form.
Submit ==
  /\ formOps < MaxFormOps /\ formOps' = formOps + 1
  /\ FormStep("submit", NoValue, handleSubmit(FormWorld))

SubmitSettles ==
  /\ submitPending > 0
  /\ UNCHANGED formOps
  /\ FormStep("submitSettles", NoValue, submitSettles(FormWorld))

SuccessTimerFires ==
  /\ successTimers > 0
  /\ UNCHANGED formOps
  /\ FormStep("successTimer", NoValue, successTimerFires(FormWorld))

SuccessFadeTimerFires ==
  /\ successFadeTimers > 0
  /\ UNCHANGED formOps
  /\ FormStep("successFadeTimer", NoValue, successFadeTimerFires(FormWorld))

FormNext ==
  \/ ValidateAllFields
  \/ Submit
  \/ SubmitSettles
  \/ SuccessTimerFires
  \/ SuccessFadeTimerFires
  \/ \E f \in FieldSet : \E v \in TypedValues[f] : InputEvent(f, v)
  \/ \E f \in FieldSet : BlurEvent(f)
  \/ \E f \in FieldSet : HideTimerFires(f)

(***************************************************************************)
(* BlogSystem                                                              *)
(***************************************************************************)
\* Texts are sequences of characters.
toLowerCase(str) ==
  [i \in DOMAIN str |->
     CASE str[i] = "R" -> "r"
       [] str[i] = "E" -> "e"
       [] str[i] = "J" -> "j"
       [] str[i] = "S" -> "s"
       [] OTHER -> str[i]]

\* text.includes(q)
includes(text, q) ==
  \E i \in 1..(Len(text) - Len(q) + 1) : SubSeq(text, i, i + Len(q) - 1) = q

\* query.trim(), of which only the truthiness is used.
IsBlank(q) == \A i \in DOMAIN q : q[i] \in Whitespace

\* The articles of the data file: 'react' matches "re" in its title, 'node'
\* in its excerpt only, 'tips' in a tag, 'intro' in its content. publishedDate
\* is the day the Date parses to.
Article(id) ==
  CASE id = "react" ->
         [id |-> id, title |-> <<"R", "e">>, excerpt |-> <<"x">>, content |-> <<"x">>,
          tags |-> <<<<"x">>>>, category |-> "tutorials", publishedDate |-> 2]
    [] id = "node" ->
         [id |-> id, title |-> <<"J", "s">>, excerpt |-> <<"r", "e">>,
          content |-> <<"J", "s">>, tags |-> <<<<"J", "s">>>>,
          category |-> "insights", publishedDate |-> 1]
    [] id = "tips" ->
         [id |-> id, title |-> <<"x">>, excerpt |-> <<"x">>, content |-> <<"x">>,
          tags |-> <<<<"x">>, <<"R", "E">>>>, category |-> "tutorials",
          publishedDate |-> 3]
    [] OTHER ->
         [id |-> id, title |-> <<"x">>, excerpt |-> <<"x">>,
          content |-> <<"a", "r", "e">>, tags |-> <<>>, category |-> "insights",
          publishedDate |-> 2]

ArticleIds == {"react", "node", "tips", "intro"}

\* The data files considered: three of the articles, in any order.
ArticleLists ==
  {<<Article(l[1]), Article(l[2]), Article(l[3])>> :
     l \in {m \in ArticleIds \X ArticleIds \X ArticleIds :
              m[1] # m[2] /\ m[1] # m[3] /\ m[2] # m[3]}}

CategoryIds == {"tutorials", "insights"}

Queries == {<<"r", "e">>, <<"R", "E">>, <<" ">>, <<>>}

BlogWorld ==
  [articles |-> articles, currentFilter |-> currentFilter,
   searchQuery |-> searchQuery, blogView |-> blogView]

BlogWorldIs(w) ==
  /\ articles = w.articles
  /\ currentFilter = w.currentFilter
  /\ searchQuery = w.searchQuery
  /\ blogView = w.blogView

BlogWorldBecomes(w) ==
  /\ articles' = w.articles
  /\ currentFilter' = w.currentFilter
  /\ searchQuery' = w.searchQuery
  /\ blogView' = w.blogView

RECURSIVE insertByDate(_, _)
\* Where a stable newest-first sort puts an article among sorted ones.
insertByDate(sorted, a) ==
  IF sorted = <<>> THEN <<a>>
  ELSE IF Head(sorted).publishedDate >= a.publishedDate
       THEN <<Head(sorted)>> \o insertByDate(Tail(sorted), a)
       ELSE <<a>> \o sorted

RECURSIVE sortByDate(_)
\* array.sort((a, b) => new Date(b.publishedDate) - new Date(a.publishedDate))
sortByDate(list) ==
  IF list = <<>> THEN <<>>
  ELSE insertByDate(sortByDate(SubSeq(list, 1, Len(list) - 1)), list[Len(list)])

matchesQuery(article, query) ==
  \/ includes(toLowerCase(article.title), query)
  \/ includes(toLowerCase(article.excerpt), query)
  \/ includes(toLowerCase(article.content), query)
  \/ \E t \in DOMAIN article.tags : includes(toLowerCase(article.tags[t]), query)

\* getFilteredArticles: the list it returns and this.articles afterwards. With
\* neither filter applied the array sorted in place is this.articles itself.
getFilteredArticles(w) ==
  LET byCategory == w.currentFilter # "all"
      bySearch == ~IsBlank(w.searchQuery)
      f1 == IF byCategory
            THEN SelectSeq(w.articles, LAMBDA a : a.category = w.currentFilter)
            ELSE w.articles
      f2 == IF bySearch
            THEN SelectSeq(f1, LAMBDA a : matchesQuery(a, toLowerCase(w.searchQuery)))
            ELSE f1
      sorted == sortByDate(f2)
  IN [filtered |-> sorted,
      articles |-> IF byCategory \/ bySearch THEN w.articles ELSE sorted]

\* renderArticleList: the grid is found or appended to the container, emptied,
\* and filled with the cards or the 'No articles found.' paragraph.
renderArticleList(w) ==
  LET r == getFilteredArticles(w)
  IN [w EXCEPT !.articles = r.articles,
               !.blogView.grid = TRUE,
               !.blogView.cards = [i \in DOMAIN r.filtered |-> r.filtered[i].id],
               !.blogView.noArticles = (r.filtered = <<>>)]

searchArticles(w, query) == renderArticleList([w EXCEPT !.searchQuery = query])

\* filterByCategory: the buttons, while the controls exist, follow the category.
filterByCategory(w, category) ==
  LET w1 == renderArticleList([w EXCEPT !.currentFilter = category])
  IN IF w1.blogView.controls
     THEN [w1 EXCEPT !.blogView.activeButtons = {category} \cap (CategoryIds \cup {"all"})]
     ELSE w1

handleFilterClick(w, category) ==
  renderArticleList([w EXCEPT !.blogView.activeButtons = {category},
                              !.currentFilter = category])

\* renderArticle replaces everything in the container by the article view.
renderArticle(w, articleId) ==
  IF \A i \in DOMAIN w.articles : w.articles[i].id # articleId THEN w
  ELSE [w EXCEPT !.blogView =
          [controls |-> FALSE, activeButtons |-> {}, grid |-> FALSE, cards |-> <<>>,
           noArticles |-> FALSE, articleView |-> articleId]]

\* new BlogSystem(container, data): controls, then the list.
NewBlogSystem(list) ==
  renderArticleList(
    [articles |-> list, currentFilter |-> "all", searchQuery |-> <<>>,
     blogView |-> [controls |-> TRUE, activeButtons |-> {"all"}, grid |-> FALSE,
                   cards |-> <<>>, noArticles |-> FALSE, articleView |-> NoValue]])

BlogStep(op, arg, w) ==
  /\ UNCHANGED <<themeVars, navVars, lazyVars, animVars, appVars, formVars, swVars, modalVars>>
  /\ blogOps < MaxBlogOps
  /\ blogOps' = blogOps + 1
  /\ UNCHANGED givenArticles
  /\ BlogWorldBecomes(w)
  /\ blogLast' = [op |-> op, arg |-> arg, pre |-> BlogWorld]

BlogInit ==
  /\ \E list \in ArticleLists :
       /\ givenArticles = list
       /\ BlogWorldIs(NewBlogSystem(list))
  /\ blogOps = 0
  /\ blogLast = [op |-> "construct", arg |-> NoValue, pre |-> NoValue]

SearchArticles(query) ==
  /\ BlogStep("searchArticles", query, searchArticles(BlogWorld, query))

FilterByCategory(category) ==
  /\ BlogStep("filterByCategory", category, filterByCategory(BlogWorld, category))

\* A click on one of the category buttons.
ClickFilter(category) ==
  /\ blogView.controls
  /\ BlogStep("clickFilter", category, handleFilterClick(BlogWorld, category))

\* The visitor types in the search box.
SearchInput(query) ==
  /\ blogView.controls
  /\ BlogStep("searchInput", query,
              renderArticleList([BlogWorld EXCEPT !.searchQuery = query]))

\* A click on the 'Read Article' button of a displayed card.
ClickReadArticle(i) ==
  /\ BlogStep("readArticle", blogView.cards[i], renderArticle(BlogWorld, blogView.cards[i]))

\* A click on the back button of the article view.
ClickBackToList ==
  /\ blogView.articleView # NoValue
  /\ BlogStep("backToList", NoValue, renderArticleList(BlogWorld))

BlogNext ==
  \/ \E query \in Queries : SearchArticles(query)
  \/ \E category \in CategoryIds \cup {"all"} : FilterByCategory(category)
  \/ \E category \in CategoryIds \cup {"all"} : ClickFilter(category)
  \/ \E query \in Queries : SearchInput(query)
  \/ \E i \in DOMAIN blogView.cards : ClickReadArticle(i)
  \/ ClickBackToList

(***************************************************************************)
(* Service worker (sw.js)                                                  *)
(***************************************************************************)
CACHE_NAME == "portfolio-v1.0.0"

\* Two of the URLs of the precache list.
urlsToCache == {"/index.html", "/data/projects.json"}

\* Caches an earlier version, or anything else on the origin, left behind.
OldCacheNames == {"portfolio-v0.9.0", "runtime"}

Urls == urlsToCache \cup {"/api/contact"}

Requests == [url : Urls, method : {"GET", "POST"}]

NetworkError == [status |-> 0, type |-> "error"]

\* What fetch(request) can come back with.
NetworkOutcomes ==
  {[status |-> 200, type |-> "basic"], [status |-> 404, type |-> "basic"],
   [status |-> 200, type |-> "cors"], [status |-> 0, type |-> "opaque"], NetworkError}

\* caches.match(request): some cache holds a response for it. Only GET requests
\* match.
cachesMatch(store, request) ==
  /\ request.method = "GET"
  /\ \E name \in DOMAIN store : request.url \in store[name]

\* caches.open(name) creates the cache when there is none.
cachesOpen(store, name) ==
  IF name \in DOMAIN store THEN store
  ELSE [n \in DOMAIN store \cup {name} |-> IF n = name THEN {} ELSE store[n]]

\* cache.put refuses a request whose method is not GET.
putRejects(request) == request.method # "GET"

cachePut(store, name, request) ==
  [store EXCEPT ![name] = @ \cup {request.url}]

\* The response check of the fetch handler.
isValidResponse(response) == response.status = 200 /\ response.type = "basic"

\* activate: every cache named otherwise is deleted.
deleteOldCaches(store) == [n \in DOMAIN store \cap {CACHE_NAME} |-> store[n]]

SwStep(op, request, source, response) ==
  /\ UNCHANGED <<themeVars, navVars, lazyVars, animVars, appVars, formVars, blogVars, modalVars>>
  /\ swLast' = [op |-> op, request |-> request, source |-> source,
                response |-> response, pre |-> cacheStorage]

SwInit ==
  /\ swPhase = "parsed"
  /\ \E names \in SUBSET OldCacheNames :
       \E store \in [names -> {{}, {"/index.html"}}] : cacheStorage = store
  /\ pendingPuts = {}
  /\ storable = {}
  /\ rejections = 0
  /\ swOps = 0
  /\ swLast = [op |-> "register", request |-> NoValue, source |-> NoValue,
               response |-> NoValue, pre |-> NoValue]

\* install: the precache list is added as a whole, or addAll rejects and the
\* worker is discarded.
Install(ok) ==
  /\ swPhase = "parsed"
  /\ swPhase' = IF ok THEN "installed" ELSE "redundant"
  /\ cacheStorage' =
       IF ok
       THEN [cachesOpen(cacheStorage, CACHE_NAME) EXCEPT ![CACHE_NAME] = @ \cup urlsToCache]
       ELSE cachesOpen(cacheStorage, CACHE_NAME)
  /\ UNCHANGED <<pendingPuts, storable, rejections, swOps>>
  /\ SwStep("install", NoValue, NoValue, NoValue)

Activate ==
  /\ swPhase = "installed"
  /\ swPhase' = "activated"
  /\ cacheStorage' = deleteOldCaches(cacheStorage)
  /\ UNCHANGED <<pendingPuts, storable, rejections, swOps>>
  /\ SwStep("activate", NoValue, NoValue, NoValue)

\* fetch, answered from a cache.
FetchFromCache(request) ==
  /\ swPhase = "activated"
  /\ swOps < MaxFetches
  /\ cachesMatch(cacheStorage, request)
  /\ swOps' = swOps + 1
  /\ UNCHANGED <<swPhase, cacheStorage, pendingPuts, storable, rejections>>
  /\ SwStep("fetch", request, "cache", [status |-> 200, type |-> "basic"])

\* fetch, answered by the network; a valid response is handed to the cache on
\* the side.
FetchFromNetwork(request, response) ==
  /\ swPhase = "activated"
  /\ swOps < MaxFetches
  /\ ~cachesMatch(cacheStorage, request)
  /\ swOps' = swOps + 1
  /\ pendingPuts' = IF isValidResponse(response) THEN pendingPuts \cup {request}
                    ELSE pendingPuts
  /\ storable' = IF isValidResponse(response) THEN storable \cup {request} ELSE storable
  /\ UNCHANGED <<swPhase, cacheStorage, rejections>>
  /\ SwStep("fetch", request, IF response = NetworkError THEN "error" ELSE "network",
            response)

\* caches.open(CACHE_NAME).then(cache => cache.put(request, copy)) settles.
PutSettles(request) ==
  /\ request \in pendingPuts
  /\ pendingPuts' = pendingPuts \ {request}
  /\ cacheStorage' =
       IF putRejects(request) THEN cachesOpen(cacheStorage, CACHE_NAME)
       ELSE cachePut(cachesOpen(cacheStorage, CACHE_NAME), CACHE_NAME, request)
  /\ rejections' = IF putRejects(request) THEN rejections + 1 ELSE rejections
  /\ UNCHANGED <<swPhase, storable, swOps>>
  /\ SwStep("put", request, NoValue, NoValue)

SwNext ==
  \/ \E ok \in BOOLEAN : Install(ok)
  \/ Activate
  \/ \E request \in Requests : FetchFromCache(request)
  \/ \E request \in Requests, response \in NetworkOutcomes :
       FetchFromNetwork(request, response)
  \/ \E request \in Requests : PutSettles(request)

(***************************************************************************)
(* The page: NavigationManager together with the modals of ProjectGallery  *)
(* and SkillsTimeline                                                      *)
(***************************************************************************)
ProjectIds == {"portfolio"}
ExperienceIds == {"developer"}

\* Ids handed to showProjectModal / showTimelineDetails: known and unknown.
RequestedIds == ProjectIds \cup ExperienceIds \cup {"unknown"}

\* Where a click outside the nav lands: the 'view project' button of a card,
\* the 'details' button of a timeline item, or inside an open modal its close
\* button, its overlay, or its content.
PageClickTargets ==
  {"viewProjectBtn", "timelineDetailsBtn", "galleryClose", "galleryOverlay",
   "galleryContent", "timelineClose", "timelineOverlay", "timelineContent"}

Page == [nav |-> NavWorld, galleryModal |-> galleryModal, timelineModal |-> timelineModal]

\* ProjectGallery.closeModal
galleryCloseModal(p) ==
  IF p.galleryModal
  THEN [p EXCEPT !.galleryModal = FALSE, !.nav.bodyOverflow = ""]
  ELSE p

\* ProjectGallery.createModal
createModal(p) ==
  [galleryCloseModal(p) EXCEPT !.galleryModal = TRUE, !.nav.bodyOverflow = "hidden"]

showProjectModal(p, projectId) ==
  IF projectId \notin ProjectIds THEN p ELSE createModal(p)

\* SkillsTimeline.closeModal
timelineCloseModal(p) ==
  IF p.timelineModal
  THEN [p EXCEPT !.timelineModal = FALSE, !.nav.bodyOverflow = ""]
  ELSE p

\* SkillsTimeline.createTimelineModal
createTimelineModal(p) ==
  [timelineCloseModal(p) EXCEPT !.timelineModal = TRUE, !.nav.bodyOverflow = "hidden"]

showTimelineDetails(p, experienceId) ==
  IF experienceId \notin ExperienceIds THEN p ELSE createTimelineModal(p)

\* The listeners between the target of a click and the document.
onComponentClick(p, target) ==
  CASE target = "viewProjectBtn" -> showProjectModal(p, "portfolio")
    [] target = "timelineDetailsBtn" -> showTimelineDetails(p, "developer")
    [] target \in {"galleryClose", "galleryOverlay"} -> galleryCloseModal(p)
    [] target \in {"timelineClose", "timelineOverlay"} -> timelineCloseModal(p)
    [] OTHER -> p

\* A click outside the nav: the component's listener, then the document's.
dispatchPageClick(p, target) ==
  LET p1 == onComponentClick(p, target)
  IN [p1 EXCEPT !.nav = onDocumentClick(p1.nav, [kind |-> "outside", id |-> NoValue])]

\* The targets in the document: those inside a modal exist while it is open.
TargetExists(target) ==
  /\ target \in {"galleryClose", "galleryOverlay", "galleryContent"} => galleryModal
  /\ target \in {"timelineClose", "timelineOverlay", "timelineContent"} => timelineModal

PageStep(op, arg, p) ==
  /\ UNCHANGED <<themeVars, lazyVars, animVars, appVars, formVars, blogVars, swVars>>
  /\ NavWorldBecomes(p.nav)
  /\ galleryModal' = p.galleryModal
  /\ timelineModal' = p.timelineModal
  /\ navLast' = [op |-> op, arg |-> arg, pre |-> NavWorld]
  /\ UNCHANGED hasHeader

ShowProjectModal(projectId) ==
  /\ PageStep("showProjectModal", projectId, showProjectModal(Page, projectId))

GalleryCloseModal ==
  /\ PageStep("galleryCloseModal", NoValue, galleryCloseModal(Page))

ShowTimelineDetails(experienceId) ==
  /\ PageStep("showTimelineDetails", experienceId, showTimelineDetails(Page, experienceId))

TimelineCloseModal ==
  /\ PageStep("timelineCloseModal", NoValue, timelineCloseModal(Page))

PageClick(target) ==
  /\ TargetExists(target)
  /\ PageStep("pageClick", target, dispatchPageClick(Page, target))

PageNext ==
  \/ OpenMobileMenu
  \/ CloseMobileMenu
  \/ ToggleMobileMenu
  \/ \E target \in ClickTargets : Click(target)
  \/ \E key \in Keys : Keydown(key)
  \/ \E width \in Widths : Resize(width)
  \/ \E projectId \in RequestedIds : ShowProjectModal(projectId)
  \/ GalleryCloseModal
  \/ \E experienceId \in RequestedIds : ShowTimelineDetails(experienceId)
  \/ TimelineCloseModal
  \/ \E target \in PageClickTargets : PageClick(target)

(***************************************************************************)
(* Specifications: each component runs while the others stay as built.     *)
(***************************************************************************)
vars ==
  <<themeVars, navVars, lazyVars, animVars, appVars, formVars, blogVars, swVars,
    modalVars>>

\* The ThemeManager of a page whose other components are left alone.
ThemeIdle ==
  /\ storageOK = TRUE /\ hasToggle = TRUE /\ hasMatchMedia = TRUE /\ osLight = FALSE
  /\ bootStorage = NoValue /\ bootOsLight = FALSE
  /\ ThemeWorldIs(NewThemeManager(NoValue, TRUE, TRUE, TRUE, FALSE))
  /\ themeOps = 0 /\ userChose = FALSE
  /\ themeLast = [op |-> "construct", arg |-> NoValue]
  /\ themeLast2 = [op |-> "none"]

NavIdle ==
  /\ NavWorldIs(NewNavigationManager(1024))
  /\ hasHeader = TRUE
  /\ navLast = [op |-> "construct", arg |-> NoValue]

\* The LazyImageLoader of a page whose images are left alone.
LazyIdle ==
  /\ hasIO = TRUE
  /\ LazyWorldIs(NewLazyImageLoader(TRUE))
  /\ lazyLast = [op |-> "construct", arg |-> NoValue]

\* The AnimationEngine of a page nobody scrolls or points at.
AnimIdle ==
  /\ AnimWorldIs(animInit(NewAnimationEngine(FreshDocument)))
  /\ animOps = 0
  /\ animLast = [op |-> "construct", arg |-> NoValue]

\* A PortfolioApp that was constructed and never started.
AppIdle ==
  /\ structure = FullStructure /\ themeHooks = {} /\ navHooks = {}
  /\ AppWorldIs(NewPortfolioApp("complete"))
  /\ appOps = 0
  /\ appLast = [op |-> "construct", arg |-> NoValue]

\* A ContactForm nobody has typed into.
FormIdle ==
  /\ FormWorldIs(NewContactForm([f \in FieldSet |-> <<>>]))
  /\ formOps = 0
  /\ formLast = [op |-> "construct", arg |-> NoValue]

\* A BlogSystem nobody searches or filters.
BlogIdle ==
  /\ givenArticles = <<Article("react"), Article("node"), Article("tips")>>
  /\ BlogWorldIs(NewBlogSystem(givenArticles))
  /\ blogOps = 0
  /\ blogLast = [op |-> "construct", arg |-> NoValue, pre |-> NoValue]

\* A page no service worker is registered for.
SwIdle ==
  /\ swPhase = "parsed"
  /\ cacheStorage = <<>>
  /\ pendingPuts = {}
  /\ storable = {}
  /\ rejections = 0
  /\ swOps = 0
  /\ swLast = [op |-> "register", request |-> NoValue, source |-> NoValue,
               response |-> NoValue, pre |-> NoValue]

\* No modal is ever opened.
ModalIdle ==
  /\ galleryModal = FALSE
  /\ timelineModal = FALSE

ThemeSpecInit ==
  ThemeInit /\ NavIdle /\ LazyIdle /\ AnimIdle /\ AppIdle /\ FormIdle /\ BlogIdle /\ SwIdle
    /\ ModalIdle

ThemeSpec == ThemeSpecInit /\ [][ThemeNext]_vars

NavSpecInit ==
  NavInit /\ ThemeIdle /\ LazyIdle /\ AnimIdle /\ AppIdle /\ FormIdle /\ BlogIdle /\ SwIdle
    /\ ModalIdle

NavSpec == NavSpecInit /\ [][NavNext]_vars

LazySpecInit ==
  LazyInit /\ ThemeIdle /\ NavIdle /\ AnimIdle /\ AppIdle /\ FormIdle /\ BlogIdle /\ SwIdle
    /\ ModalIdle

LazySpec == LazySpecInit /\ [][LazyNext]_vars

AnimSpecInit ==
  AnimInit /\ ThemeIdle /\ NavIdle /\ LazyIdle /\ AppIdle /\ FormIdle /\ BlogIdle /\ SwIdle
    /\ ModalIdle

AnimSpec == AnimSpecInit /\ [][AnimNext]_vars

AppSpecInit ==
  AppInit /\ ThemeIdle /\ NavIdle /\ LazyIdle /\ AnimIdle /\ FormIdle /\ BlogIdle /\ SwIdle
    /\ ModalIdle

AppSpec == AppSpecInit /\ [][AppNext]_vars

FormSpecInit ==
  FormInit /\ ThemeIdle /\ NavIdle /\ LazyIdle /\ AnimIdle /\ AppIdle /\ BlogIdle /\ SwIdle
    /\ ModalIdle

FormSpec == FormSpecInit /\ [][FormNext]_vars

BlogSpecInit ==
  BlogInit /\ ThemeIdle /\ NavIdle /\ LazyIdle /\ AnimIdle /\ AppIdle /\ FormIdle /\ SwIdle
    /\ ModalIdle

BlogSpec == BlogSpecInit /\ [][BlogNext]_vars

SwSpecInit ==
  SwInit /\ ThemeIdle /\ NavIdle /\ LazyIdle /\ AnimIdle /\ AppIdle /\ FormIdle /\ BlogIdle
    /\ ModalIdle

SwSpec == SwSpecInit /\ [][SwNext]_vars

PageSpecInit ==
  NavInit /\ ThemeIdle /\ LazyIdle /\ AnimIdle /\ AppIdle /\ FormIdle /\ BlogIdle /\ SwIdle
    /\ ModalIdle

PageSpec == PageSpecInit /\ [][PageNext]_vars

(***************************************************************************)
(* Properties of ThemeManager, checked under ThemeSpec.                    *)
(***************************************************************************)

IsSetThemeCall == themeLast.op = "setTheme"
IsToggleCall == themeLast.op = "toggleTheme"
ValidSetThemeCall == IsSetThemeCall /\ themeLast.arg \in supportedThemes
LastEvent == themeEvents[Len(themeEvents)]

\* C1: setTheme(name) with name outside {dark, light} changes nothing: the
\* current theme, data-theme, the persisted value, the pending transition
\* timer (its id and the timer table) and the list of dispatched themeChanged
\* events are what they were before the call.
C1_InvalidSetThemeIsNoOp ==
  (IsSetThemeCall /\ themeLast.arg \notin supportedThemes)
    => /\ currentTheme = themeLast.pre.currentTheme
       /\ dataTheme = themeLast.pre.dataTheme
       /\ storage = themeLast.pre.storage
       /\ transitionTimeout = themeLast.pre.transitionTimeout
       /\ timers = themeLast.pre.timers
       /\ timerSeq = themeLast.pre.timerSeq
       /\ bodyTransitioning = themeLast.pre.bodyTransitioning
       /\ themeEvents = themeLast.pre.themeEvents

\* An invalid setTheme arrived while a transition timer was pending and an
\* earlier event had been dispatched.
C1_Witness ==
  /\ IsSetThemeCall /\ themeLast.arg = "blue"
  /\ transitionTimeout # 0
  /\ Len(themeEvents) = 1

\* What every dispatched themeChanged event saw of the manager and the document.
EventsSeeAppliedTheme ==
  \A i \in DOMAIN themeEvents :
    /\ themeEvents[i].seenTheme = themeEvents[i].theme
    /\ themeEvents[i].seenData = themeEvents[i].theme

\* A valid setTheme or a toggleTheme dispatched exactly one event, carrying the
\* new theme and the theme held before the call.
CallDispatchesItsEvent ==
  (ValidSetThemeCall \/ IsToggleCall)
    => /\ Len(themeEvents) = Len(themeLast.pre.themeEvents) + 1
       /\ LastEvent.theme = currentTheme
       /\ ValidSetThemeCall => LastEvent.theme = themeLast.arg
       /\ LastEvent.previousTheme = themeLast.pre.currentTheme

\* C2 as stated: at dispatch the current theme, data-theme and the persisted
\* value all equal the new theme, and the detail carries theme and previousTheme.
C2_DispatchAfterMutation_Stated ==
  /\ EventsSeeAppliedTheme
  /\ \A i \in DOMAIN themeEvents : themeEvents[i].seenStorage = themeEvents[i].theme
  /\ CallDispatchesItsEvent

\* C2: themeChanged is dispatched after the mutation is applied: at dispatch the
\* current theme and data-theme equal the new theme, the persisted value equals
\* it whenever the store accepts writes (a throwing localStorage is swallowed by
\* persistTheme and the event is dispatched all the same), and the detail
\* carries theme = name and previousTheme = the theme before the call.
C2_DispatchAfterMutation ==
  /\ EventsSeeAppliedTheme
  /\ storageOK =>
       \A i \in DOMAIN themeEvents : themeEvents[i].seenStorage = themeEvents[i].theme
  /\ CallDispatchesItsEvent

\* setTheme('light') on a dark page with a working store dispatched its event.
C2_Witness ==
  /\ ValidSetThemeCall /\ themeLast.arg = "light"
  /\ themeLast.pre.currentTheme = "dark"
  /\ storageOK
  /\ LastEvent.seenStorage = "light"
  /\ LastEvent.previousTheme = "dark"

OneToggleFlips == IsToggleCall => currentTheme = OtherTheme(themeLast.pre.currentTheme)

TwoToggles == IsToggleCall /\ themeLast2.op = "toggleTheme"

\* C3 as stated: after two consecutive toggles the current theme, data-theme
\* and the persisted value equal the theme t held before them.
C3_ToggleRoundTrip_Stated ==
  /\ OneToggleFlips
  /\ TwoToggles => /\ currentTheme = themeLast2.pre
                   /\ dataTheme = themeLast2.pre
                   /\ storage = themeLast2.pre

\* C3: one toggle yields the other theme; two consecutive toggles leave the
\* current theme and data-theme equal to the theme t held before them, and the
\* persisted value equal to t whenever the store accepts writes.
C3_ToggleRoundTrip ==
  /\ OneToggleFlips
  /\ TwoToggles => /\ currentTheme = themeLast2.pre
                   /\ dataTheme = themeLast2.pre
                   /\ storageOK => storage = themeLast2.pre

\* Two toggles in a row from 'light', with a working store.
C3_Witness ==
  /\ TwoToggles /\ themeLast2.pre = "light" /\ storageOK /\ storage = "light"

\* The OS-reported preference at construction, when the platform reports one.
BootSystemTheme == detectSystemTheme(hasMatchMedia, bootOsLight)

\* C4: construction takes the first valid candidate of: persisted value, OS
\* preference, 'dark'. A persisted dark/light wins; otherwise (absent or
\* invalid) the OS preference is used; the result is always dark or light.
C4_FirstValidCandidateWins ==
  /\ currentTheme \in supportedThemes
  /\ themeLast.op = "construct" =>
       currentTheme = (IF bootStorage \in supportedThemes THEN bootStorage
                       ELSE BootSystemTheme)

\* C5: an OS colour-scheme change switches the theme to the OS value when no
\* user preference was ever persisted (store empty at construction, no
\* setTheme/toggleTheme since), and leaves it alone when one was persisted.
C5_SystemChangeFollowsOsUnlessUserChose ==
  (themeLast.op = "systemChange" /\ hasToggle /\ hasMatchMedia /\ storageOK)
    => /\ (bootStorage = NoValue /\ ~userChose) => currentTheme = themeLast.arg
       /\ (bootStorage \in supportedThemes \/ userChose)
            => currentTheme = themeLast.pre.currentTheme


(***************************************************************************)
(* Properties of NavigationManager, checked under NavSpec.                 *)
(***************************************************************************)

MenuProjectionsAgree ==
  /\ mobileMenuOpen <=> navLinksOpen
  /\ mobileMenuOpen <=> (ariaExpanded = "true")
  /\ ariaExpanded \in {"true", "false"}

\* C6: the projections agree with the menu state (mobileMenuOpen iff .nav-links
\* carries 'mobile-menu-open' iff aria-expanded is 'true'); the menu starts
\* Closed, openMobileMenu leads to Open, closeMobileMenu leads to Closed and
\* changes nothing when already Closed, toggleMobileMenu flips the state.
C6_MenuStateMachine ==
  /\ MenuProjectionsAgree
  /\ navLast.op = "construct" => ~mobileMenuOpen
  /\ navLast.op = "openMobileMenu" => mobileMenuOpen
  /\ navLast.op = "closeMobileMenu" => ~mobileMenuOpen
  /\ (navLast.op = "closeMobileMenu" /\ ~navLast.pre.mobileMenuOpen) => NavWorld = navLast.pre
  /\ navLast.op = "toggleMobileMenu" => (mobileMenuOpen <=> ~navLast.pre.mobileMenuOpen)

\* toggleMobileMenu opened a closed menu.
C6_Witness ==
  /\ navLast.op = "toggleMobileMenu" /\ ~navLast.pre.mobileMenuOpen
  /\ mobileMenuOpen /\ navLinksOpen /\ ariaExpanded = "true"

ClosingEvent ==
  \/ navLast.op = "click" /\ navLast.arg.kind \in {"outside", "link"}
  \/ navLast.op = "keydown" /\ navLast.arg = "Escape"
  \/ navLast.op = "resize" /\ navLast.arg > MobileBreakpoint

NonClosingEvent ==
  \/ navLast.op = "click" /\ navLast.arg.kind \in {"navLinksItem", "navOther"}
  \/ navLast.op = "keydown" /\ navLast.arg # "Escape"
  \/ navLast.op = "resize" /\ navLast.arg <= MobileBreakpoint

\* C7: with the menu Open, a click outside the nav, an Escape keydown, a click
\* on a navigation link and a resize to a width above 768 each lead to Closed
\* with body overflow released; a resize to 768 or below, another key, and a
\* click inside the nav on neither a link nor the hamburger leave it Open.
C7_CloseTriggers ==
  /\ (navLast.pre.mobileMenuOpen /\ ClosingEvent)
       => (~mobileMenuOpen /\ ~navLinksOpen /\ bodyOverflow = "")
  /\ (navLast.pre.mobileMenuOpen /\ NonClosingEvent)
       => (mobileMenuOpen /\ bodyOverflow = "hidden")

\* The open menu was resized to exactly 768 and stayed open.
C7_WitnessStaysOpen ==
  /\ navLast.op = "resize" /\ navLast.arg = MobileBreakpoint
  /\ navLast.pre.mobileMenuOpen /\ mobileMenuOpen

\* The open menu was closed by a resize to 769.
C7_Witness ==
  /\ navLast.op = "resize" /\ navLast.arg = MobileBreakpoint + 1
  /\ navLast.pre.mobileMenuOpen /\ ~mobileMenuOpen /\ bodyOverflow = ""

\* C8: after every updateActiveSection(id) with id a collected section,
\* starting from the constructed manager, exactly one link carries 'active',
\* the link of the requested section; a call with the current active section
\* changes nothing.
C8_ExactlyOneActiveLink ==
  navLast.op = "updateActiveSection"
    => /\ activeLinks = {navLast.arg}
       /\ navLast.arg = navLast.pre.activeSection => NavWorld = navLast.pre

(***************************************************************************)
(* Properties of LazyImageLoader, checked under LazySpec.                  *)
(***************************************************************************)

\* The images among a list that were tracked before the last operation.
PreTracked(list) == {list[i] : i \in DOMAIN list} \cap lazyLast.pre.images

\* C9: adding an image again while it is still tracked is a no-op: the loader,
\* the observer and the element are what they were before the call, so an image
\* that has never left the tracked set has been handed to observe() exactly once
\* and had its placeholder applied exactly once.
C9_SecondAddIsNoOp ==
  /\ (lazyLast.op = "addImage" /\ lazyLast.arg \in lazyLast.pre.images)
       => LazyWorld = lazyLast.pre
  /\ lazyLast.op = "addImages"
       => \A img \in PreTracked(lazyLast.arg) :
            /\ observeCalls[img] = lazyLast.pre.observeCalls[img]
            /\ placeholderCalls[img] = lazyLast.pre.placeholderCalls[img]
            /\ dom[img] = lazyLast.pre.dom[img]
  /\ hasIO => \A img \in images :
                ~everLeft[img] => (observeCalls[img] = 1 /\ placeholderCalls[img] = 1)

\* A tracked, never yet visible image was added again.
C9_Witness ==
  /\ hasIO
  /\ lazyLast.op = "addImage" /\ lazyLast.arg \in lazyLast.pre.images
  /\ ~everLeft[lazyLast.arg] /\ observeCalls[lazyLast.arg] = 1
  /\ lazyLast.arg \in observed

PreloadsOf(seq, img) == Cardinality({k \in DOMAIN seq : seq[k].img = img})

HasDeferredSource(el) == ~Falsy(el.dataSrc) \/ ~Falsy(el.dataSrcset)

ReportedVisible(img) ==
  /\ lazyLast.op = "intersection"
  /\ \E i \in DOMAIN lazyLast.arg :
       lazyLast.arg[i].target = img /\ lazyLast.arg[i].isIntersecting

ReportedHidden(img) ==
  /\ lazyLast.op = "intersection"
  /\ \E i \in DOMAIN lazyLast.arg : lazyLast.arg[i].target = img
  /\ ~ReportedVisible(img)

CompletedFor(img) == lazyLast.op \in {"onload", "onerror"} /\ lazyLast.arg.img = img

\* C10: a tracked image with a deferred source that is reported visible keeps
\* its element (placeholder marker, data-src/data-srcset) as it is while a
\* preload of the deferred source is started, and nothing but the completion of
\* a preload of it takes them away; onload leaves src = the deferred source, no
\* data-src/data-srcset, the loaded marker and no placeholder marker; onerror
\* leaves the error marker, no placeholder marker and the 'Failed to load'
\* placeholder as src. An image reported as not intersecting is not loaded and
\* stays tracked and observed with its element unchanged.
C10_VisibleImageLoads ==
  \A img \in ImageIds :
    /\ (ReportedVisible(img) /\ HasDeferredSource(lazyLast.pre.dom[img]))
         => /\ dom[img] = lazyLast.pre.dom[img]
            /\ PreloadsOf(loading, img) = PreloadsOf(lazyLast.pre.loading, img) + 1
            /\ \E k \in DOMAIN loading :
                 /\ loading[k].img = img
                 /\ loading[k].dataSrc = lazyLast.pre.dom[img].dataSrc
                 /\ loading[k].dataSrcset = lazyLast.pre.dom[img].dataSrcset
            /\ img \notin images /\ img \notin observed
    /\ ReportedHidden(img)
         => /\ dom[img] = lazyLast.pre.dom[img]
            /\ PreloadsOf(loading, img) = PreloadsOf(lazyLast.pre.loading, img)
            /\ img \in images /\ img \in observed
    /\ (PreloadsOf(lazyLast.pre.loading, img) > 0 /\ ~CompletedFor(img)
        /\ lazyLast.op # "construct")
         => /\ dom[img].dataSrc = lazyLast.pre.dom[img].dataSrc
            /\ dom[img].dataSrcset = lazyLast.pre.dom[img].dataSrcset
            /\ placeholderClass \in lazyLast.pre.dom[img].classes
                 => placeholderClass \in dom[img].classes
    /\ (lazyLast.op = "onload" /\ lazyLast.arg.img = img)
         => /\ dom[img].src = Url(lazyLast.arg.dataSrc)
            /\ dom[img].dataSrc = NoValue /\ dom[img].dataSrcset = NoValue
            /\ loadedClass \in dom[img].classes
            /\ placeholderClass \notin dom[img].classes
    /\ (lazyLast.op = "onerror" /\ lazyLast.arg.img = img)
         => /\ errorClass \in dom[img].classes
            /\ placeholderClass \notin dom[img].classes
            /\ dom[img].src = errorPlaceholder(dom[img])

\* The preload of the visible image 'hero' succeeded: hero.jpg is shown.
C10_Witness ==
  /\ lazyLast.op = "onload" /\ lazyLast.arg.img = "hero"
  /\ placeholderClass \in lazyLast.pre.dom["hero"].classes
  /\ lazyLast.pre.dom["hero"].dataSrc = "hero.jpg"
  /\ dom["hero"].src = Url("hero.jpg")
  /\ dom["hero"].classes = {loadedClass}

\* The preload of the visible image 'hero' failed.
C10_WitnessError ==
  /\ lazyLast.op = "onerror" /\ lazyLast.arg.img = "hero"
  /\ dom["hero"].classes = {errorClass}
  /\ dom["hero"].src.kind = "failed"

\* 'card' was reported visible and waits for its preload under its placeholder.
C10_WitnessPending ==
  /\ ReportedVisible("card")
  /\ placeholderClass \in dom["card"].classes
  /\ dom["card"].dataSrc = "card.jpg"
  /\ PreloadsOf(loading, "card") = 1

\* Without an IntersectionObserver an image with a deferred source that was
\* not tracked before starts its preload within the call that adds it, and
\* construction starts one preload per deferred image of the document.
FallbackLoadsAtOnce ==
  ~hasIO =>
    /\ lazyLast.op = "construct"
         => \A img \in ImageIds :
              HasDeferredSource(InitialElement(img)) => PreloadsOf(loading, img) = 1
    /\ (lazyLast.op = "addImage" /\ lazyLast.arg \notin lazyLast.pre.images
        /\ HasDeferredSource(lazyLast.pre.dom[lazyLast.arg]))
         => /\ PreloadsOf(loading, lazyLast.arg)
                 = PreloadsOf(lazyLast.pre.loading, lazyLast.arg) + 1
            /\ lazyLast.arg \notin observed

\* C11: without an IntersectionObserver every deferred image of the document
\* at construction and every image later handed to addImage/addImages starts
\* loading at once, and the failure of any such load is swallowed: no promise
\* rejection is left unhandled.
C11_FallbackLoadsAndSwallows ==
  /\ FallbackLoadsAtOnce
  /\ ~hasIO => ~unhandledRejection

(***************************************************************************)
(* Properties of AnimationEngine, checked under AnimSpec.                  *)
(***************************************************************************)

\* The elements animated in at some time before the last operation.
AnimatedBefore == {el \in AnimElements : animLast.pre.animateCalls[el] > 0}

\* C12: an element is promoted from hidden to visible at most once: across
\* observer callbacks and destroy()/init() cycles animateElement runs at most
\* once per element, and a visibility event for an element animated in
\* earlier leaves its style and its 'visible' class as they were.
C12_AnimatedAtMostOnce ==
  /\ \A el \in AnimElements : animateCalls[el] <= 1
  /\ animLast.op = "intersection"
       => \A el \in AnimatedBefore :
            /\ style[el] = animLast.pre.style[el]
            /\ (el \in visible) = (el \in animLast.pre.visible)

CountIn(seq, kind) == Cardinality({i \in DOMAIN seq : seq[i] = kind})

HoverKinds == {"hoverEnter", "hoverLeave"}

\* The listeners an element should carry, given its two markers.
ExpectedCount(el, kind) ==
  IF kind \in HoverKinds
  THEN (IF el \in hoverInitialized THEN 1 ELSE 0)
  ELSE (IF el \in clickInitialized THEN 1 ELSE 0)

\* C13: however often hover effects or click feedback are attached to an
\* element, also by a re-created engine, each of their pointer listeners is
\* registered exactly once, and one pointer event runs each listener for that
\* event exactly once.
C13_ListenersRegisteredOnce ==
  /\ \A el \in AnimElements, kind \in ListenerKinds :
       CountIn(listeners[el], kind) = ExpectedCount(el, kind)
  /\ animLast.op = "pointer"
       => \A kind \in ListenerKinds :
            CountIn(fired, kind)
              = IF EventOf(kind) = animLast.arg.type
                THEN ExpectedCount(animLast.arg.el, kind) ELSE 0

\* After hover effects and click feedback were attached to the button again
\* and again (by init, by a re-created engine, by addHoverEffect), a mouseenter
\* ran the hover listener once and lifted the button.
C13_Witness ==
  /\ animLast.op = "pointer"
  /\ animLast.arg = [el |-> "button", type |-> "mouseenter"]
  /\ attachCalls["button"] >= 5
  /\ fired = <<"hoverEnter">>
  /\ style["button"].transform = "translateY(-2px)"

\* A mouseleave on the button ran the hover listener and the click listener.
C13_WitnessLeave ==
  /\ animLast.op = "pointer"
  /\ animLast.arg = [el |-> "button", type |-> "mouseleave"]
  /\ fired = <<"hoverLeave", "clickLeave">>

(***************************************************************************)
(* Properties of PortfolioApp, checked under AppSpec.                      *)
(***************************************************************************)

\* init() has run to its end and the components were initialized.
InitCompleted == appPc = "running" /\ ~domPending

\* The step that completed init() was the last one.
InitJustCompleted == InitCompleted /\ appLast.op \in {"fetch", "DOMContentLoaded"}

\* The dataset each data-driven component is built from.
DatasetOf(name) ==
  CASE name = "projectGallery" -> "projects"
    [] name = "blogSystem" -> "articles"
    [] OTHER -> "timeline"

\* C14: loadData falls back per dataset: a dataset whose fetch or decoding
\* failed is its empty structure, a dataset whose fetch succeeded keeps the
\* fetched content, and the component built from it receives that content.
C14_PerDatasetFallback ==
  appPc = "running"
    => \A d \in DatasetNames :
         /\ fetched[d] = "ok" => data[d] = RealData
         /\ fetched[d] = "failed" => data[d] = EmptyData

\* The containers a component needs in the document.
Needs(name) ==
  CASE name = "navigationManager" -> {"nav", "navLinks"}
    [] name = "projectGallery" -> {"projects"}
    [] name = "blogSystem" -> {"blog"}
    [] name = "contactForm" -> {"contactForm"}
    [] name = "skillsTimeline" -> {"skillsTimeline"}
    [] OTHER -> {}

RegisteredBefore == {appLast.pre.registry[i] : i \in DOMAIN appLast.pre.registry}

\* C15: after reinitializeComponents every component registered before that
\* has destroy() was destroyed, every key registered before is registered
\* again with a live instance, and areAllComponentsInitialized() is true.
C15_ReinitRestoresRegistry ==
  appLast.op = "reinitializeComponents"
    => /\ \A name \in RegisteredBefore :
            HasDestroy(name) => appLast.pre.fields[name].gen \in destroyedGens
       /\ \A name \in RegisteredBefore :
            /\ InRegistry(AppWorld, name)
            /\ fields[name] # NoInstance
            /\ ~fields[name].destroyed
       /\ areAllComponentsInitialized(AppWorld)

\* The hook calls one delivered event should make: one per registered
\* component exposing the hook, in registry order, with the payload.
HookCallsOf(hook, hooked, payload) ==
  LET names == SelectSeq(appLast.pre.registry, LAMBDA name : name \in hooked)
  IN [i \in DOMAIN names |->
        [hook |-> hook, name |-> names[i],
         gen |-> appLast.pre.fields[names[i]].gen, payload |-> payload]]

\* The app never holds two subscriptions to one event.
SubscribedAtMostOnce == themeSubs <= 1 /\ navSubs <= 1

\* An event delivered to a subscribed app calls each hooked component once.
FanOutExact ==
  /\ (appLast.op = "themeChanged" /\ themeSubs = 1)
       => hookLog = HookCallsOf("onThemeChange", themeHooks, appLast.arg)
  /\ (appLast.op = "navigationChanged" /\ navSubs = 1)
       => hookLog = HookCallsOf("onNavigationChange", navHooks, appLast.arg)

\* C16: once init() has run, the app holds exactly one subscription to
\* themeChanged and one to navigationChanged, also after
\* reinitializeComponents, and each event delivered then calls the matching
\* hook of every registered component exposing it exactly once with the
\* payload, skipping the components without it.
C16_SubscribedOnceAndFanOut ==
  /\ appPc = "running" => (themeSubs = 1 /\ navSubs = 1)
  /\ (appLast.op = "themeChanged" /\ appLast.pre.appPc = "running")
       => hookLog = HookCallsOf("onThemeChange", themeHooks, appLast.arg)
  /\ (appLast.op = "navigationChanged" /\ appLast.pre.appPc = "running")
       => hookLog = HookCallsOf("onNavigationChange", navHooks, appLast.arg)

\* C17: when init() has completed, a component is registered exactly when the
\* structure it needs is in the document, whatever else is missing, and the
\* cross-component listeners are in place.
C17_MissingStructureIsLocal ==
  InitJustCompleted
    => /\ \A name \in ComponentNames :
            InRegistry(AppWorld, name) = (Needs(name) \subseteq structure)
       /\ themeSubs = 1 /\ navSubs = 1

(***************************************************************************)
(* Properties of ContactForm, checked under FormSpec.                      *)
(***************************************************************************)

\* The criteria applied to the values as entered.
EnteredValid(vals) ==
  /\ StrLen(vals.name) >= 2 /\ namePattern(vals.name)
  /\ emailPattern(vals.email)
  /\ StrLen(vals.subject) >= 5 /\ StrLen(vals.subject) <= 100
  /\ StrLen(vals.message) >= 10 /\ StrLen(vals.message) <= 1000

ErrorVisible(f) == errorElements[f].display = "block" /\ errorElements[f].opacity = "1"

\* C18: validateAllFields() returns true exactly when the values as entered
\* satisfy: name of at least 2 characters, letters and spaces only; email of
\* the form x@y.z without spaces or further @; subject of 5 to 100
\* characters; message of 10 to 1000 characters. Otherwise it returns false
\* and at least one field error message is visible.
C18_ValidateAllMatchesEntered ==
  formLast.op = "validateAllFields"
    => /\ formResult = EnteredValid(values)
       /\ ~EnteredValid(values) => \E f \in FieldSet : ErrorVisible(f)

(***************************************************************************)
(* Properties of BlogSystem, checked under BlogSpec.                       *)
(***************************************************************************)

\* The article a displayed card belongs to (card.dataset.articleId).
ArticleOfCard(id) == CHOOSE a \in {articles[i] : i \in DOMAIN articles} : a.id = id

\* title, content or a tag contains q, letter case aside.
MatchesTitleContentOrTag(a, q) ==
  \/ includes(toLowerCase(a.title), toLowerCase(q))
  \/ includes(toLowerCase(a.content), toLowerCase(q))
  \/ \E t \in DOMAIN a.tags : includes(toLowerCase(a.tags[t]), toLowerCase(q))

\* C19: after searchArticles(q) with a non-blank q every displayed card
\* belongs to an article whose title, content or one of whose tags contains q
\* case-insensitively.
C19_SearchShowsOnlyMatches ==
  (blogLast.op = "searchArticles" /\ ~IsBlank(blogLast.arg))
    => \A i \in DOMAIN blogView.cards :
         MatchesTitleContentOrTag(ArticleOfCard(blogView.cards[i]), blogLast.arg)

(***************************************************************************)
(* Properties of the service worker, checked under SwSpec.                 *)
(***************************************************************************)

\* A fetch is answered from a cache exactly when a cached response existed,
\* and then nothing is asked of the network.
CacheFirst ==
  swLast.op = "fetch"
    => (swLast.source = "cache") = cachesMatch(swLast.pre, swLast.request)

\* Every valid network response is in the current cache, or on its way there.
ValidResponsesStored ==
  \A request \in storable :
    \/ request \in pendingPuts
    \/ /\ CACHE_NAME \in DOMAIN cacheStorage
       /\ request.url \in cacheStorage[CACHE_NAME]

\* Once the worker is active only the cache of the current version exists.
ActivationPurges ==
  swPhase = "activated" => DOMAIN cacheStorage \subseteq {CACHE_NAME}

\* C20: the fetch handler answers from the cache whenever a cached response
\* exists and from the network otherwise; a network response with status 200
\* and type basic is stored in the cache of the current version; after
\* activation no cache of another name remains.
C20_CacheFirstStoreAndPurge ==
  /\ CacheFirst
  /\ ValidResponsesStored
  /\ ActivationPurges

(***************************************************************************)
(* Properties of the page, checked under PageSpec.                         *)
(***************************************************************************)

\* C21: document.body.style.overflow is 'hidden' in every state in which the
\* mobile menu, the ProjectGallery modal or the SkillsTimeline modal is open;
\* it is released only when none of them is open.
C21_ScrollLockHeldWhileAnyHolderOpen ==
  (mobileMenuOpen \/ galleryModal \/ timelineModal) => bodyOverflow = "hidden"

(***************************************************************************)
(* The transition timer of ThemeManager, checked under ThemeSpec.          *)
(***************************************************************************)

\* The last operation started a transition: a setTheme that went through.
StartedTransition ==
  /\ themeLast.op \in {"setTheme", "toggleTheme", "systemChange"}
  /\ timerSeq # themeLast.pre.timerSeq

\* At most one removal timer is pending, it is the one the manager holds, and
\* the class is set while it is pending; a setTheme that goes through replaces
\* the pending timer by a new one; the timer's callback removes a class that
\* was set and leaves no timer behind; cleanup leaves no timer pending.
OneTransitionTimer ==
  /\ Cardinality(timers) <= 1
  /\ timers # {} => (bodyTransitioning /\ timers = {transitionTimeout})
  /\ StartedTransition
       => (bodyTransitioning /\ timers = {transitionTimeout}
             /\ transitionTimeout \notin themeLast.pre.timers)
  /\ themeLast.op = "timer"
       => (themeLast.pre.bodyTransitioning /\ ~bodyTransitioning /\ timers = {})
  /\ themeLast.op = "cleanup" => timers = {}

\* C22 as stated: at most one pending removal timer, replaced by each valid
\* setTheme; the class stays set until the timer of the most recent setTheme
\* fires and is then removed, so a set class always has its removal pending;
\* no timer is pending after cleanup().
C22_SingleTransitionTimer_Stated ==
  /\ OneTransitionTimer
  /\ bodyTransitioning => timers # {}

\* C22, amended: as stated, except that cleanup() cancels the removal: the
\* class is set with no removal pending only after a cleanup() that found a
\* timer pending, and stays so until the next setTheme.
C22_SingleTransitionTimer ==
  [][/\ OneTransitionTimer'
     /\ (bodyTransitioning' /\ timers' = {})
          => \/ themeLast'.op = "cleanup" /\ timers # {}
             \/ bodyTransitioning /\ timers = {}]_vars

\* A setTheme that went through while the timer of an earlier one was pending.
C22_Witness ==
  /\ StartedTransition
  /\ themeLast.pre.timers # {}
  /\ timers = {transitionTimeout}

\* cleanup() cancelled a pending removal.
C22_WitnessCleanup ==
  /\ themeLast.op = "cleanup"
  /\ themeLast.pre.timers # {}
  /\ bodyTransitioning

(***************************************************************************)
(* The hide timers of ContactForm, checked under FormSpec.                 *)
(***************************************************************************)

\* C23: at most one hide timer is outstanding per message element, the
\* success message and the error message of each field: a repeated showSuccess
\* or hideError replaces the pending timer.
C23_OneHideTimerPerElement ==
  /\ \A f \in FieldSet : hideTimers[f] <= 1
  /\ successTimers + successFadeTimers <= 1

\* No timer of the form is pending.
AllFormTimersFired ==
  /\ \A f \in FieldSet : hideTimers[f] = 0
  /\ submitPending = 0
  /\ successTimers = 0
  /\ successFadeTimers = 0

\* C27: once all pending timers have fired, the error message of a field is
\* displayed exactly when the most recent validation of that field failed.
C27_ErrorShownIffLastValidationFailed ==
  AllFormTimersFired
    => \A f \in FieldSet : (errorElements[f].display = "block") = ~lastValid[f]

(***************************************************************************)
(* The tracked set of LazyImageLoader, checked under LazySpec.             *)
(***************************************************************************)

\* The image has been loaded or has failed to load.
Settled(img) == loadedClass \in dom[img].classes \/ errorClass \in dom[img].classes

\* The last operation, part of the loader's life, took the image out of the set.
LeftTrackedSet(img) ==
  /\ lazyLast.op # "destroy"
  /\ img \in lazyLast.pre.images
  /\ img \notin images

\* C24: an image leaves the tracked set at the moment it becomes loaded or
\* errored, and once it is loaded or errored it is neither tracked nor observed
\* again, whatever addImage/addImages, re-scans and visibility callbacks follow.
C24_LeavesTrackedSetOnceWhenSettled ==
  \A img \in ImageIds :
    /\ LeftTrackedSet(img)
         => (lazyLast.op \in {"onload", "onerror"} /\ lazyLast.arg.img = img)
    /\ Settled(img) => (img \notin images /\ img \notin observed)

\* The placeholder, loaded and error markers an image carries.
MarkersOf(img) == dom[img].classes \cap {placeholderClass, loadedClass, errorClass}

\* C28: in every reachable state an image carries at most one of the
\* placeholder, loaded and error markers, and an image carrying the loaded
\* marker has neither data-src nor data-srcset left.
C28_OneMarkerPerImage ==
  \A img \in ImageIds :
    /\ Cardinality(MarkersOf(img)) <= 1
    /\ loadedClass \in dom[img].classes
         => (Falsy(dom[img].dataSrc) /\ Falsy(dom[img].dataSrcset))

(***************************************************************************)
(* Batches of observer entries.                                            *)
(***************************************************************************)

\* The batch with its entries in the opposite order.
Reversed(entries) == [i \in DOMAIN entries |-> entries[Len(entries) + 1 - i]]

\* Batches of one or two entries for the given targets.
PairBatches(targets) ==
  LET E == [target : targets, isIntersecting : BOOLEAN]
  IN {<<e>> : e \in E} \cup (E \X E)

RECURSIVE NavOnePerCallback(_, _)
\* The section observer called back once per entry.
NavOnePerCallback(w, entries) ==
  IF entries = <<>> THEN w
  ELSE NavOnePerCallback(sectionObserverCallback(w, <<Head(entries)>>), Tail(entries))

RECURSIVE AnimOnePerCallback(_, _)
AnimOnePerCallback(w, entries) ==
  IF entries = <<>> THEN w
  ELSE AnimOnePerCallback(animHandleIntersection(w, <<Head(entries)>>), Tail(entries))

RECURSIVE LazyOnePerCallback(_, _)
LazyOnePerCallback(w, entries) ==
  IF entries = <<>> THEN w
  ELSE LazyOnePerCallback(handleIntersection(w, <<Head(entries)>>), Tail(entries))

\* The preloads in flight regardless of the order they were started in.
LoadingBag(w) ==
  [w EXCEPT !.loading =
     [r \in {w.loading[i] : i \in DOMAIN w.loading}
        |-> Cardinality({i \in DOMAIN w.loading : w.loading[i] = r})]]

NavBatchOrderFree ==
  \A b \in (IF sectionsObserved THEN PairBatches(SectionIds) ELSE {}) :
    /\ sectionObserverCallback(NavWorld, b) = sectionObserverCallback(NavWorld, Reversed(b))
    /\ sectionObserverCallback(NavWorld, b) = NavOnePerCallback(NavWorld, b)

AnimBatchOrderFree ==
  \A b \in (IF scrollObserver.live THEN PairBatches(scrollObserver.targets) ELSE {}) :
    /\ animHandleIntersection(AnimWorld, b) = animHandleIntersection(AnimWorld, Reversed(b))
    /\ animHandleIntersection(AnimWorld, b) = AnimOnePerCallback(AnimWorld, b)

LazyBatchOrderFree ==
  \A b \in BatchesOf(observed) :
    /\ LoadingBag(handleIntersection(LazyWorld, b))
         = LoadingBag(handleIntersection(LazyWorld, Reversed(b)))
    /\ handleIntersection(LazyWorld, b) = LazyOnePerCallback(LazyWorld, b)

\* C25: for the section observer of NavigationManager, for
\* AnimationEngine.handleIntersection and for LazyImageLoader.handleIntersection,
\* a batch of entries leaves the same component state in every order of its
\* entries, the state that one callback per entry leaves.
C25_BatchOrderIsInsignificant ==
  /\ NavBatchOrderFree
  /\ AnimBatchOrderFree
  /\ LazyBatchOrderFree

(***************************************************************************)
(* Construction order of PortfolioApp, checked under AppSpec.              *)
(***************************************************************************)

ConstructionOrder ==
  <<"themeManager", "lazyImageLoader", "animationEngine", "navigationManager",
    "projectGallery", "blogSystem", "contactForm", "skillsTimeline">>

PlaceOf(name) == CHOOSE i \in DOMAIN ConstructionOrder : ConstructionOrder[i] = name

ContentComponents == ComponentNames \ {"themeManager", "lazyImageLoader"}

C26_WitnessReinit ==
  /\ appLast.op = "reinitializeComponents"
  /\ Len(registry) = 6
  /\ fields["animationEngine"].gen > 8

\* The ids of the articles getFilteredArticles returns now.
FilteredIds ==
  LET f == getFilteredArticles(BlogWorld).filtered
  IN [i \in DOMAIN f |-> f[i].id]

\* C29: after an article was opened and the back button clicked, the container
\* shows the article list together with the search box and the category
\* buttons, and the list is the one of the category filter and search query
\* in force before the article was opened.
C29_BackToListRestoresListAndControls ==
  blogLast.op = "backToList"
    => /\ blogView.grid
       /\ blogView.controls
       /\ currentFilter = blogLast.pre.currentFilter
       /\ searchQuery = blogLast.pre.searchQuery
       /\ blogView.cards = FilteredIds

\* C30: rendering, filtering and searching leave the articles array handed to
\* the constructor with the same elements in the same order.
C30_DatasetNotModified ==
  articles = givenArticles

====
